---- MODULE Spec2Model ----
(***************************************************************************)
(* Supervisor and OAuth token lifecycle of the Hytale server container.    *)
(*                                                                         *)
(* Two implementations of the supervisor live in the repository and both   *)
(* are modelled; `impl` selects the one that runs:                         *)
(*   "ts" - the Bun/TypeScript entrypoint (entrypoint.ts, token-manager.ts)*)
(*   "sh" - the bash entrypoint (entrypoint.sh, token-manager.sh)          *)
(*                                                                         *)
(* Time is a discrete-event clock in seconds (the sources use ms for the   *)
(* TypeScript timers); it jumps to the next pending timer deadline.        *)
(* Timestamps stored in files are seconds, 0 stands for a missing/empty    *)
(* timestamp field.                                                        *)
(***************************************************************************)
EXTENDS Integers, Sequences, FiniteSets, TLC

\* ---------------------------------------------------------------------------
\* Bounds of the model (not program constants)
\* ---------------------------------------------------------------------------
\* number of background refresh checks followed in one run
MaxChecks == 1
\* number of daily log cleanups followed in one run
MaxCleanups == 1
\* expires_in of the device challenge returned by the provider (seconds)
DeviceExpiresIn == 6
\* expires_in of an access token returned by the provider (seconds)
TokenExpiresIn == 3600
\* number of daily refresh checks followed in a long run
MaxKeepAliveChecks == 10

\* ---------------------------------------------------------------------------
\* Program constants
\* ---------------------------------------------------------------------------
DAY == 86400
\* grace period of the signal handler: setTimeout(..., 30000)
GRACE_PERIOD == 30
\* startOAuthRefreshLoop: first check after 60000 ms
REFRESH_INITIAL_DELAY == 60
\* default of OAUTH_REFRESH_CHECK_INTERVAL (86400000 ms)
OAUTH_REFRESH_CHECK_INTERVAL == 86400
\* default of OAUTH_REFRESH_THRESHOLD_DAYS
OAUTH_REFRESH_THRESHOLD_DAYS == 7
\* refresh tokens last 30 days
REFRESH_TOKEN_LIFETIME_DAYS == 30
\* LOG_CLEANUP_INTERVAL_MS = 24 * 60 * 60 * 1000
LOG_CLEANUP_INTERVAL == 86400
\* isAccessTokenExpired: 60 second buffer
ACCESS_EXPIRY_BUFFER == 60
\* variant of SLOW_DOWN_STEP: slow_down leaves the interval as it is
NoSlowDownStep == ACCESS_EXPIRY_BUFFER - ACCESS_EXPIRY_BUFFER
\* pollForToken: slow_down adds 5000 ms
SLOW_DOWN_STEP == 5
\* interval of the device challenge (RFC 8628 default, token-manager.sh :714)
DeviceInterval == 5

\* clock value at container start; stored timestamps lie before it
StartTime == REFRESH_TOKEN_LIFETIME_DAYS * DAY + 1

\* a missing or empty timestamp / string field
NoTimestamp == 0
NoFile == [kind |-> "absent"]
CorruptFile == [kind |-> "corrupt"]
NoTokens == [kind |-> "null"]
\* a file opened for writing and not yet written: zero bytes
EmptyFile == [kind |-> "empty"]
NoExit == -1

VARIABLES
  impl,                         \* which entrypoint runs
  now,                          \* clock, seconds
  HYTALE_SERVER_SESSION_TOKEN,  \* environment override, "" when unset
  AUTO_AUTH_ON_START,           \* interactive device authorization enabled
  DRY_RUN,
  LOG_RETENTION_DAYS,
  tokenFile,                    \* content of OAUTH_TOKEN_FILE
  mainPc,                       \* position of main()
  acqPc,                        \* position of acquireSessionTokens()
  oauthTokens,                  \* local variable of acquireSessionTokens()
  sessionTokens,                \* result of the acquisition
  acqVia,                       \* "stored" | "device": caller of createGameSession
  pollDeadline, pollInterval, pollWake,   \* pollForToken locals
  javaProcess,                  \* "null" | "running" | "exited"
  childExitCode,
  isShuttingDown,
  hPc,                          \* signal handler: "idle" | "waiting"
  graceDeadline,                \* pending setTimeout of the handler, 0 = none
  termSentAt, killSentAt,       \* clock at SIGTERM / SIGKILL, 0 = not sent
  refreshLoopRunning, rPc, rWake, rStored, checks,
  logCleanupRunning, cPc, cWake, cleanups,
  supExit,                      \* exit code of the supervisor, NoExit while alive
  children,                     \* number of live child (java) processes
  \* --- bash entrypoint (entrypoint.sh, token-manager.sh) ---
  sessionFile,                  \* expires_at of server-tokens.json, 0 = no file
  TOKENS_LOADED,
  shPc,                         \* position of main / start_server
  tm,                           \* running token-manager.sh invocation of each caller
  mPc, server_booted, auth_triggered,    \* monitor subshell of start_server
  aPc, aWake,                   \* authorization subshell started by the monitor
  lPc, lWake,                   \* start_token_refresh_loop subshell
  logBooted, logAuthRequired,   \* markers present in the server output log
  clPc, clWake, count,          \* cleanup trap
  store,                        \* one use of the token store and its reader
  loops,                        \* the two background loops called on their own
  dl,                           \* download_server_files of download.sh
  hist                          \* observations used by the properties

vars == << impl, now, HYTALE_SERVER_SESSION_TOKEN, AUTO_AUTH_ON_START, DRY_RUN,
           LOG_RETENTION_DAYS, tokenFile, mainPc, acqPc, oauthTokens,
           sessionTokens, acqVia, pollDeadline, pollInterval, pollWake, javaProcess,
           childExitCode, isShuttingDown, hPc, graceDeadline, termSentAt,
           killSentAt, refreshLoopRunning, rPc, rWake, rStored, checks,
           logCleanupRunning, cPc, cWake, cleanups, supExit, children,
           sessionFile, TOKENS_LOADED, shPc, tm, mPc, server_booted,
           auth_triggered, aPc, aWake, lPc, lWake, logBooted, logAuthRequired,
           clPc, clWake, count, store, loops, dl, hist >>

\* ---------------------------------------------------------------------------
\* Token storage (token-manager.ts)
\* ---------------------------------------------------------------------------
Tokens(at, rt, ea, ra) ==
  [kind |-> "tokens", accessToken |-> at, refreshToken |-> rt,
   expiresAt |-> ea, refreshedAt |-> ra]

\* variant of loadOAuthTokens without the try/catch around read and parse
LoadUncaught(file) ==
  IF file.kind = "absent" THEN NoTokens
  ELSE IF file.kind # "tokens" THEN [kind |-> "raised"]
  ELSE IF file.refreshToken = "" THEN NoTokens
  ELSE Tokens(file.accessToken, file.refreshToken, file.expiresAt, file.refreshedAt)

\* loadOAuthTokens: null for a missing or unparsable file or one without a
\* refresh token, otherwise the four fields as stored
loadOAuthTokens(file) ==
  IF file.kind # "tokens" THEN NoTokens
  ELSE IF file.refreshToken = "" THEN NoTokens
  ELSE Tokens(file.accessToken, file.refreshToken, file.expiresAt, file.refreshedAt)

\* variant of saveOAuthTokens that writes the caller's refreshedAt
SaveWithoutStamp(tokens, t) ==
  Tokens(tokens.accessToken, tokens.refreshToken, tokens.expiresAt,
         tokens.refreshedAt)

\* variant of saveOAuthTokens that leaves the refresh token out of the file
SaveDropsRefreshToken(tokens, t) ==
  Tokens(tokens.accessToken, "", tokens.expiresAt, t)

\* saveOAuthTokens: writes the three token fields and stamps refreshedAt with
\* the current time
saveOAuthTokens(tokens, t) ==
  Tokens(tokens.accessToken, tokens.refreshToken, tokens.expiresAt, t)

\* variant of isAccessTokenExpired: the expiry is not looked at
AccessTokenNeverExpired(tokens, t) == FALSE

\* isAccessTokenExpired: expired when expiresAt is empty or within 60 s
isAccessTokenExpired(tokens, t) ==
  IF tokens.expiresAt = NoTimestamp THEN TRUE
  ELSE tokens.expiresAt <= t + ACCESS_EXPIRY_BUFFER

\* variant of isRefreshTokenExpiringSoon: `>` in place of `>=`
ExpiringSoonStrictly(tokens, t) ==
  IF tokens.refreshedAt = NoTimestamp THEN FALSE
  ELSE (t - tokens.refreshedAt)
         > (REFRESH_TOKEN_LIFETIME_DAYS - OAUTH_REFRESH_THRESHOLD_DAYS) * DAY

\* isRefreshTokenExpiringSoon: false without refreshedAt, else true when
\* (30 - threshold) days have passed since refreshedAt
isRefreshTokenExpiringSoon(tokens, t) ==
  IF tokens.refreshedAt = NoTimestamp THEN FALSE
  ELSE (t - tokens.refreshedAt)
         >= (REFRESH_TOKEN_LIFETIME_DAYS - OAUTH_REFRESH_THRESHOLD_DAYS) * DAY

\* clearTokens: unlink the token file
clearTokens(file) == NoFile

\* ---------------------------------------------------------------------------
\* Initial state: the container has just started
\* ---------------------------------------------------------------------------
\* token files found on the data volume at start
InitialTokenFiles ==
  { NoFile, CorruptFile,
    \* access token still valid, refreshed 22 days ago
    Tokens("at_stored", "abc", StartTime + TokenExpiresIn, StartTime - 22 * DAY),
    \* access token expired, refreshed 23 days ago
    Tokens("at_stored", "abc", StartTime - DAY, StartTime - 23 * DAY),
    \* access token still valid, refreshed 23 days ago
    Tokens("at_stored", "abc", StartTime + TokenExpiresIn, StartTime - 23 * DAY),
    \* file written before refreshedAt existed
    Tokens("at_stored", "abc", StartTime + TokenExpiresIn, NoTimestamp) }

NoSession == [kind |-> "null"]

InitHist ==
  [ checkAfterShutdown |-> FALSE,
    cleanupAfterShutdown |-> FALSE,
    saveAfterShutdown |-> FALSE,
    refreshFailed |-> FALSE,
    restartRequested |-> {},
    killSent |-> {},
    deletedOn |-> "none",
    invalidGrant |-> FALSE,
    challenges |-> 0,
    lastRefreshAt |-> NoTimestamp,
    sessionFlags |-> {},
    logged |-> {},
    lastPoll |-> "none" ]

\* the moment the refresh token in `file` was last issued; a file written
\* before refreshedAt existed does not say, `unknown` stands for it
LastRefreshOf(file, unknown) ==
  IF file.kind # "tokens" THEN NoTimestamp
  ELSE IF file.refreshedAt # NoTimestamp THEN file.refreshedAt
  ELSE unknown

\* token-manager.sh is not running for a caller
TmIdle ==
  [cmd |-> "none", pc |-> "idle", rc |-> 0, rt |-> "", next |-> "", why |-> "",
   deadline |-> 0, interval |-> 0, wake |-> 0]
TmCallers == {"main", "auth", "loop"}

\* the token store is not in use
StoreIdle ==
  [pc |-> "idle", rpc |-> "idle", op |-> "none", arg |-> NoTokens,
   before |-> NoFile, resp |-> "none", startedAt |-> NoTimestamp,
   savedAt |-> NoTimestamp, ret |-> NoTokens, seen |-> NoFile,
   seenAt |-> "none", aging |-> FALSE, agingOf |-> NoTokens,
   agingAt |-> NoTimestamp]

\* no call of the loops' start and stop functions made, no loop body alive
LoopsIdle == [calls |-> 0, refresh |-> << >>, cleanup |-> << >>]

\* download_server_files is not running
DlIdle ==
  [pc |-> "off", attempt |-> 0, success |-> FALSE, auth_needed |-> FALSE,
   last_error |-> "", result |-> 0, wake |-> 0, runs |-> 0, sawAuth |-> FALSE,
   message |-> "none", authLink |-> FALSE]

\* rest state of the bash entrypoint's variables
InitShIdle ==
  /\ sessionFile = NoTimestamp
  /\ TOKENS_LOADED = FALSE
  /\ shPc = "off"
  /\ tm = [c \in TmCallers |-> TmIdle]
  /\ mPc = "off" /\ server_booted = FALSE /\ auth_triggered = FALSE
  /\ aPc = "off" /\ aWake = 0
  /\ lPc = "off" /\ lWake = 0
  /\ logBooted = FALSE /\ logAuthRequired = FALSE
  /\ clPc = "idle" /\ clWake = 0 /\ count = 0

InitTs ==
  /\ impl = "ts"
  /\ now = StartTime
  /\ HYTALE_SERVER_SESSION_TOKEN \in {"", "env_session"}
  /\ AUTO_AUTH_ON_START \in BOOLEAN
  /\ DRY_RUN \in BOOLEAN
  /\ LOG_RETENTION_DAYS \in {0, 7}
  /\ tokenFile \in InitialTokenFiles
  /\ mainPc = "setup"
  /\ acqPc = "idle"
  /\ oauthTokens = NoTokens
  /\ sessionTokens = NoSession
  /\ acqVia = "stored"
  /\ pollDeadline = 0 /\ pollInterval = 0 /\ pollWake = 0
  /\ javaProcess = "null"
  /\ childExitCode = NoExit
  /\ isShuttingDown = FALSE
  /\ hPc = "idle"
  /\ graceDeadline = 0
  /\ termSentAt = 0 /\ killSentAt = 0
  /\ refreshLoopRunning = FALSE /\ rPc = "off" /\ rWake = 0
  /\ rStored = NoTokens /\ checks = 0
  /\ logCleanupRunning = FALSE /\ cPc = "off" /\ cWake = 0 /\ cleanups = 0
  /\ supExit = NoExit
  /\ children = 0
  /\ hist = [InitHist EXCEPT
               !.lastRefreshAt = LastRefreshOf(tokenFile, StartTime - DAY)]
  /\ store = StoreIdle
  /\ loops = LoopsIdle
  /\ dl = DlIdle
  /\ InitShIdle

TsAlive == impl = "ts" /\ supExit = NoExit

cfgVars == << impl, HYTALE_SERVER_SESSION_TOKEN, AUTO_AUTH_ON_START, DRY_RUN,
              LOG_RETENTION_DAYS >>
pollVars == << pollDeadline, pollInterval, pollWake >>
childVars == << javaProcess, childExitCode, children >>
shOwnVars == << sessionFile, TOKENS_LOADED, shPc, tm, mPc, server_booted,
                auth_triggered, aPc, aWake, lPc, lWake, logBooted,
                logAuthRequired, clPc, clWake, count >>
shVars == << shOwnVars, store, loops, dl >>
handlerVars == << isShuttingDown, hPc, graceDeadline, termSentAt, killSentAt >>
refreshVars == << refreshLoopRunning, rPc, rWake, rStored, checks >>
cleanupVars == << logCleanupRunning, cPc, cWake, cleanups >>
acqVars == << acqPc, oauthTokens, sessionTokens, acqVia >>
tsVars == << mainPc, acqVars, pollVars, hPc, graceDeadline, refreshVars,
             cleanupVars >>

\* ---------------------------------------------------------------------------
\* refreshOAuthTokens (token-manager.ts): the part after the fetch.
\* `stored` was loaded before the request, `resp` is the provider's answer.
\* The result is the token object returned (no refreshedAt) or a throw.
\* ---------------------------------------------------------------------------
RefreshResponses ==
  {"ok_rotated", "ok_same", "invalid_grant", "server_error", "no_access_token", "throw"}

\* variant of refreshOAuthTokens without `|| stored.refreshToken`
RefreshTokenFromResponse(stored, resp, t) ==
  IF resp \in {"ok_rotated", "ok_same"}
  THEN [ok |-> TRUE,
        tokens |-> Tokens("at_refreshed",
                          IF resp = "ok_rotated" THEN "rt_rotated" ELSE "",
                          t + TokenExpiresIn, NoTimestamp)]
  ELSE [ok |-> FALSE, tokens |-> NoTokens]

refreshOAuthTokens(stored, resp, t) ==
  IF resp \in {"ok_rotated", "ok_same"}
  THEN [ok |-> TRUE,
        tokens |-> Tokens("at_refreshed",
                          IF resp = "ok_rotated" THEN "rt_rotated"
                          ELSE stored.refreshToken,
                          t + TokenExpiresIn, NoTimestamp)]
  ELSE [ok |-> FALSE, tokens |-> NoTokens]

\* ---------------------------------------------------------------------------
\* main() of the TypeScript entrypoint
\* ---------------------------------------------------------------------------
\* Phases 1-7: directories, log cleanup, config, download, validation, mods.
\* validateServerFiles() is fatal when the server files are missing.
TsSetup ==
  /\ TsAlive /\ mainPc = "setup"
  /\ UNCHANGED shVars
  /\ \E filesPresent \in BOOLEAN :
       IF filesPresent
       THEN /\ mainPc' = "acquire" /\ acqPc' = "start" /\ supExit' = supExit
       ELSE /\ mainPc' = "fatal" /\ acqPc' = acqPc /\ supExit' = 1
  /\ UNCHANGED << now, cfgVars, tokenFile, oauthTokens, sessionTokens, acqVia,
                  pollVars, childVars, handlerVars, refreshVars, cleanupVars, hist >>

\* acquireSessionTokens(): the step taken when no stored session could be
\* built: device authorization when enabled, otherwise null
NoStoredSession ==
  IF AUTO_AUTH_ON_START
  THEN /\ acqPc' = "deviceStart" /\ acqVia' = "device"
       /\ hist' = [hist EXCEPT !.challenges = 1]
  ELSE /\ acqPc' = "done" /\ acqVia' = acqVia /\ hist' = hist

\* acquireSessionTokens(): from the call to the first await
TsAcquireStart ==
  /\ TsAlive /\ acqPc = "start"
  /\ UNCHANGED shVars
  /\ IF HYTALE_SERVER_SESSION_TOKEN # ""
     THEN /\ sessionTokens' = [kind |-> "session", source |-> "environment",
                               sessionToken |-> HYTALE_SERVER_SESSION_TOKEN]
          /\ acqPc' = "done"
          /\ UNCHANGED << oauthTokens, acqVia, hist >>
     ELSE LET loaded == loadOAuthTokens(tokenFile) IN
          /\ sessionTokens' = sessionTokens
          /\ IF loaded = NoTokens
             THEN /\ oauthTokens' = NoTokens /\ NoStoredSession
             ELSE /\ oauthTokens' = loaded
                  /\ acqVia' = "stored" /\ hist' = hist
                  /\ acqPc' = IF isAccessTokenExpired(loaded, now)
                              THEN "refresh" ELSE "profiles"
  /\ UNCHANGED << now, cfgVars, tokenFile, mainPc, pollVars, childVars,
                  handlerVars, refreshVars, cleanupVars, supExit >>

\* acquireSessionTokens(): the refresh request of an expired access token
\* answers; a throw only sets the local oauthTokens to null
TsAcquireRefreshResponse ==
  /\ TsAlive /\ acqPc = "refresh"
  /\ UNCHANGED shVars
  /\ \E resp \in RefreshResponses :
       LET r == refreshOAuthTokens(loadOAuthTokens(tokenFile), resp, now) IN
       IF r.ok
       THEN /\ tokenFile' = saveOAuthTokens(r.tokens, now)
            /\ oauthTokens' = r.tokens
            /\ acqPc' = "profiles"
            /\ acqVia' = acqVia
            /\ hist' = [hist EXCEPT !.lastRefreshAt = now]
       ELSE /\ tokenFile' = tokenFile
            /\ oauthTokens' = NoTokens
            /\ IF AUTO_AUTH_ON_START
               THEN /\ acqPc' = "deviceStart" /\ acqVia' = "device"
                    /\ hist' = [hist EXCEPT !.challenges = 1,
                                  !.invalidGrant = (resp = "invalid_grant")]
               ELSE /\ acqPc' = "done" /\ acqVia' = acqVia
                    /\ hist' = [hist EXCEPT !.invalidGrant = (resp = "invalid_grant")]
  /\ UNCHANGED << now, cfgVars, mainPc, sessionTokens, pollVars, childVars,
                  handlerVars, refreshVars, cleanupVars, supExit >>

\* variant of SessionFailed: a failed createGameSession() ends the
\* acquisition with null
SessionFailedReturns ==
  acqPc' = "done" /\ UNCHANGED << oauthTokens, acqVia, hist >>

\* createGameSession() failed: after stored tokens fall through to device
\* authorization, after device authorization return null
SessionFailed ==
  IF acqVia = "stored"
  THEN /\ oauthTokens' = NoTokens /\ NoStoredSession
  ELSE /\ acqPc' = "done" /\ UNCHANGED << oauthTokens, acqVia, hist >>

\* createGameSession(): the profile request answers
TsProfilesResponse ==
  /\ TsAlive /\ acqPc = "profiles"
  /\ UNCHANGED shVars
  /\ \E resp \in {"ok", "http_error", "no_profile", "throw"} :
       IF resp = "ok"
       THEN /\ acqPc' = "session" /\ UNCHANGED << oauthTokens, acqVia, hist >>
       ELSE SessionFailed
  /\ UNCHANGED << now, cfgVars, tokenFile, mainPc, sessionTokens, pollVars,
                  childVars, handlerVars, refreshVars, cleanupVars, supExit >>

\* createGameSession(): the session request answers
TsSessionResponse ==
  /\ TsAlive /\ acqPc = "session"
  /\ UNCHANGED shVars
  /\ \E resp \in {"ok", "http_error", "invalid", "throw"} :
       IF resp = "ok"
       THEN /\ sessionTokens' = [kind |-> "session",
                                 source |-> IF acqVia = "stored" THEN "storedOAuth"
                                            ELSE "freshDeviceAuth",
                                 sessionToken |-> "session_new"]
            /\ acqPc' = "done" /\ UNCHANGED << oauthTokens, acqVia, hist >>
       ELSE /\ sessionTokens' = sessionTokens /\ SessionFailed
  /\ UNCHANGED << now, cfgVars, tokenFile, mainPc, pollVars, childVars,
                  handlerVars, refreshVars, cleanupVars, supExit >>

\* startDeviceAuth() answers; on success pollForToken() computes its deadline
\* and goes to sleep for the first interval
TsDeviceStartResponse ==
  /\ TsAlive /\ acqPc = "deviceStart"
  /\ UNCHANGED shVars
  /\ \E resp \in {"ok", "http_error", "error", "throw"} :
       IF resp = "ok"
       THEN /\ pollDeadline' = now + DeviceExpiresIn
            /\ pollInterval' = DeviceInterval
            /\ pollWake' = now + DeviceInterval
            /\ acqPc' = "pollSleep"
       ELSE /\ acqPc' = "done" /\ UNCHANGED pollVars
  /\ UNCHANGED << now, cfgVars, tokenFile, mainPc, oauthTokens, sessionTokens,
                  acqVia, childVars, handlerVars, refreshVars, cleanupVars,
                  supExit, hist >>

\* pollForToken(): Bun.sleep(pollInterval) is over, the token request is sent
TsPollWake ==
  /\ TsAlive /\ acqPc = "pollSleep" /\ now >= pollWake
  /\ UNCHANGED shVars
  /\ acqPc' = "pollFetch"
  /\ UNCHANGED << now, cfgVars, tokenFile, mainPc, oauthTokens, sessionTokens,
                  acqVia, pollVars, childVars, handlerVars, refreshVars,
                  cleanupVars, supExit, hist >>

\* pollForToken(): the token request answers
TsPollResponse ==
  /\ TsAlive /\ acqPc = "pollFetch"
  /\ UNCHANGED shVars
  /\ \E resp \in {"authorization_pending", "slow_down", "expired_token",
                  "access_denied", "success", "invalid", "other", "throw"} :
       CASE resp \in {"authorization_pending", "slow_down"} ->
              LET iv == IF resp = "slow_down" THEN pollInterval + SLOW_DOWN_STEP
                        ELSE pollInterval IN
              /\ pollInterval' = iv
              /\ IF now < pollDeadline
                 THEN /\ acqPc' = "pollSleep" /\ pollWake' = now + iv
                      /\ hist' = [hist EXCEPT !.lastPoll = resp]
                 ELSE /\ acqPc' = "done" /\ pollWake' = pollWake
                      /\ hist' = [hist EXCEPT !.lastPoll = "none"]
              /\ UNCHANGED << pollDeadline, tokenFile, oauthTokens >>
         [] resp = "success" ->
              LET tokens == Tokens("at_device", "rt_device",
                                   now + TokenExpiresIn, NoTimestamp) IN
              /\ tokenFile' = saveOAuthTokens(tokens, now)
              /\ oauthTokens' = tokens
              /\ acqPc' = "profiles"
              /\ hist' = [hist EXCEPT !.lastRefreshAt = now,
                                      !.lastPoll = "none"]
              /\ UNCHANGED pollVars
         [] OTHER ->
              /\ acqPc' = "done"
              /\ hist' = [hist EXCEPT !.lastPoll = "none"]
              /\ UNCHANGED << pollVars, tokenFile, oauthTokens >>
  /\ UNCHANGED << now, cfgVars, mainPc, sessionTokens, acqVia, childVars,
                  handlerVars, refreshVars, cleanupVars, supExit >>

\* secretsToMask (log-utils.ts), SECRETS_TO_MASK (log-utils.sh): filled only
\* by maskSecret / mask_secret, which nothing calls
secretsToMask == {}

\* maskSecrets, and the loop of _log: the secrets of a message that are
\* still readable in the line written
maskSecrets(secrets) == secrets \ secretsToMask

\* flags of the java command line whose argument is a token
SecretFlags == {"--session-token", "--identity-token"}

\* variant of buildJavaArgs: the three flags are pushed without testing
\* whether session tokens were acquired
SessionFlagsUntested(envToken, tokens) ==
  {"--session-token", "--identity-token", "--owner-uuid"}

\* buildJavaArgs: the session flags put on the java command line. The
\* environment token wins over acquired tokens; its companions
\* HYTALE_SERVER_IDENTITY_TOKEN and HYTALE_OWNER_UUID are unset here
buildJavaArgs(envToken, tokens) ==
  IF envToken # "" THEN {"--session-token"}
  ELSE IF tokens # NoSession
       THEN {"--session-token", "--identity-token", "--owner-uuid"}
       ELSE {}

\* variant of AcquisitionReturned: main() goes on as soon as the call to
\* acquireSessionTokens() was made, without awaiting its promise
AcquisitionCalled == acqPc # "idle"

\* variant of AcquisitionReturned: main() goes on only with acquired tokens
SessionAcquired == acqPc = "done" /\ sessionTokens # NoSession

\* main(): `await acquireSessionTokens()` has returned
AcquisitionReturned == acqPc = "done"

\* main(): acquisition returned; build the command, start the background
\* loops and spawn the server (or leave in DRY_RUN)
TsSpawn ==
  /\ TsAlive /\ mainPc = "acquire" /\ AcquisitionReturned
  /\ UNCHANGED shVars
  /\ IF DRY_RUN
     THEN /\ supExit' = 0 /\ mainPc' = "dryRun"
          /\ UNCHANGED << childVars, refreshVars, cleanupVars >>
     ELSE /\ supExit' = supExit
          /\ refreshLoopRunning' = TRUE /\ rPc' = "timer"
          /\ rWake' = now + REFRESH_INITIAL_DELAY
          /\ UNCHANGED << rStored, checks >>
          /\ IF LOG_RETENTION_DAYS <= 0
             THEN UNCHANGED cleanupVars
             ELSE /\ logCleanupRunning' = TRUE /\ cPc' = "timer"
                  /\ cWake' = now + LOG_CLEANUP_INTERVAL
                  /\ cleanups' = cleanups
          /\ javaProcess' = "running" /\ childExitCode' = childExitCode
          /\ children' = children + 1
          /\ mainPc' = "waitExit"
  \* the locals of the returned acquireSessionTokens() call are gone
  /\ oauthTokens' = NoTokens /\ acqVia' = "stored"
  /\ pollDeadline' = 0 /\ pollInterval' = 0 /\ pollWake' = 0
  \* logInfo(`[DRY_RUN] Would run: java ${javaArgs.join(" ")}`)
  /\ LET javaArgs == buildJavaArgs(HYTALE_SERVER_SESSION_TOKEN, sessionTokens)
     IN hist' = [hist EXCEPT
                   !.sessionFlags = javaArgs,
                   !.logged = IF DRY_RUN
                              THEN maskSecrets(javaArgs \cap SecretFlags)
                              ELSE hist.logged]
  /\ UNCHANGED << now, cfgVars, tokenFile, acqPc, sessionTokens, handlerVars >>

\* variant of stopOAuthRefreshLoop: the flag of the loop is left as it is
RefreshLoopLeftRunning == refreshLoopRunning

\* stopOAuthRefreshLoop(): refreshLoopRunning = false
stopOAuthRefreshLoop == FALSE
\* stopLogCleanupLoop(): logCleanupRunning = false
stopLogCleanupLoop == FALSE

\* main(): process.exit(exitCode) with the exit code of the server
MainExitCode(exitCode) == exitCode

\* main(): javaProcess.exited resolved; stop the loops and exit with the code
TsMainAfterExit ==
  /\ TsAlive /\ mainPc = "waitExit" /\ javaProcess = "exited"
  /\ UNCHANGED shVars
  /\ refreshLoopRunning' = stopOAuthRefreshLoop
  /\ logCleanupRunning' = stopLogCleanupLoop
  /\ supExit' = MainExitCode(childExitCode)
  /\ mainPc' = "exited"
  /\ UNCHANGED << now, cfgVars, tokenFile, acqVars, pollVars, childVars,
                  handlerVars, rPc, rWake, rStored, checks, cPc, cWake,
                  cleanups, hist >>

\* ---------------------------------------------------------------------------
\* Signal handler `shutdown` (setupSignalHandlers)
\* ---------------------------------------------------------------------------
\* variant of ShutdownExitCode: the handler leaves with a failure status
ExitFailure(exitCode) == 1

\* the handler's setTimeout: SIGKILL 30 s after SIGTERM
ShutdownTimeout(t) == t + GRACE_PERIOD
\* the handler's process.exit(0)
ShutdownExitCode(exitCode) == 0

\* SIGTERM/SIGINT/SIGHUP arrives: stop the loops, signal the child, arm the
\* 30 s timer and wait for the child; without a child exit at once
TsSignal ==
  /\ TsAlive
  /\ UNCHANGED shVars
  /\ IF isShuttingDown
     THEN UNCHANGED << handlerVars, refreshLoopRunning, logCleanupRunning,
                       supExit, hist >>
     ELSE /\ isShuttingDown' = TRUE
          /\ refreshLoopRunning' = stopOAuthRefreshLoop
          /\ logCleanupRunning' = stopLogCleanupLoop
          /\ hist' = hist
          /\ IF javaProcess # "null"
             THEN /\ termSentAt' = now
                  /\ graceDeadline' = ShutdownTimeout(now)
                  /\ hPc' = "waiting"
                  /\ UNCHANGED << killSentAt, supExit >>
             ELSE /\ supExit' = ShutdownExitCode(childExitCode)
                  /\ UNCHANGED << hPc, graceDeadline, termSentAt, killSentAt >>
  /\ UNCHANGED << now, cfgVars, tokenFile, mainPc, acqVars, pollVars, childVars,
                  rPc, rWake, rStored, checks, cPc, cWake, cleanups >>

\* the 30 s timer of the handler fires: SIGKILL
TsGraceTimer ==
  /\ TsAlive /\ hPc = "waiting" /\ graceDeadline # 0 /\ now >= graceDeadline
  /\ UNCHANGED shVars
  /\ graceDeadline' = 0
  /\ killSentAt' = now
  /\ UNCHANGED << now, cfgVars, tokenFile, mainPc, acqVars, pollVars, childVars,
                  isShuttingDown, hPc, termSentAt, refreshVars, cleanupVars,
                  supExit, hist >>

\* the handler's await of javaProcess.exited resolved: clear the timer, exit 0
TsHandlerAfterExit ==
  /\ TsAlive /\ hPc = "waiting" /\ javaProcess = "exited"
  /\ UNCHANGED shVars
  /\ graceDeadline' = 0
  /\ hPc' = "done"
  /\ supExit' = ShutdownExitCode(childExitCode)
  /\ UNCHANGED << now, cfgVars, tokenFile, mainPc, acqVars, pollVars, childVars,
                  isShuttingDown, termSentAt, killSentAt, refreshVars,
                  cleanupVars, hist >>

\* ---------------------------------------------------------------------------
\* Background OAuth refresh loop (startOAuthRefreshLoop, checkAndRefreshOAuth)
\* ---------------------------------------------------------------------------
\* loop head, reached from the initial timer or after Bun.sleep: leave when
\* stopped, else run checkAndRefreshOAuth() up to its first await; the run is
\* followed for maxChecks checks
RefreshCheck(maxChecks) ==
  /\ TsAlive /\ rPc \in {"timer", "sleep"} /\ now >= rWake
  /\ UNCHANGED shVars
  /\ checks < maxChecks
  /\ IF ~refreshLoopRunning
     THEN /\ rPc' = "off" /\ UNCHANGED << rWake, rStored, checks, hist >>
     ELSE LET tokens == loadOAuthTokens(tokenFile) IN
          /\ checks' = checks + 1
          /\ hist' = [hist EXCEPT !.checkAfterShutdown = @ \/ isShuttingDown]
          /\ IF tokens # NoTokens /\ isRefreshTokenExpiringSoon(tokens, now)
             THEN /\ rPc' = "inflight" /\ rStored' = tokens /\ rWake' = rWake
             ELSE /\ rPc' = "sleep" /\ rStored' = rStored
                  /\ rWake' = now + OAUTH_REFRESH_CHECK_INTERVAL
  /\ UNCHANGED << now, cfgVars, tokenFile, mainPc, acqVars, pollVars, childVars,
                  handlerVars, refreshLoopRunning, cleanupVars, supExit >>

TsRefreshCheck == RefreshCheck(MaxChecks)

\* the refresh request of the loop answers with one of `responses`: save on
\* success, log on failure, then sleep until the next check
RefreshLoopResponse(responses) ==
  /\ TsAlive /\ rPc = "inflight"
  /\ UNCHANGED shVars
  /\ \E resp \in responses :
       LET r == refreshOAuthTokens(rStored, resp, now) IN
       IF r.ok
       THEN /\ tokenFile' = saveOAuthTokens(r.tokens, now)
            /\ hist' = [hist EXCEPT !.saveAfterShutdown = @ \/ isShuttingDown,
                                     !.lastRefreshAt = now]
       ELSE /\ tokenFile' = tokenFile
            /\ hist' = [hist EXCEPT !.refreshFailed = TRUE]
  /\ rPc' = "sleep"
  /\ rWake' = now + OAUTH_REFRESH_CHECK_INTERVAL
  /\ UNCHANGED << now, cfgVars, mainPc, acqVars, pollVars, childVars,
                  handlerVars, refreshLoopRunning, rStored, checks, cleanupVars,
                  supExit >>

TsRefreshLoopResponse == RefreshLoopResponse(RefreshResponses)

\* ---------------------------------------------------------------------------
\* Background log cleanup loop (startLogCleanupLoop)
\* ---------------------------------------------------------------------------
\* the initial setTimeout fires: enter the loop and sleep, or leave when stopped
TsCleanupTimer ==
  /\ TsAlive /\ cPc = "timer" /\ now >= cWake
  /\ UNCHANGED shVars
  /\ IF logCleanupRunning
     THEN /\ cPc' = "sleep" /\ cWake' = now + LOG_CLEANUP_INTERVAL
     ELSE /\ cPc' = "off" /\ cWake' = cWake
  /\ UNCHANGED << now, cfgVars, tokenFile, mainPc, acqVars, pollVars, childVars,
                  handlerVars, refreshVars, logCleanupRunning, cleanups,
                  supExit, hist >>

\* Bun.sleep is over: break when stopped, else clean up and sleep again
TsCleanupWake ==
  /\ TsAlive /\ cPc = "sleep" /\ now >= cWake
  /\ UNCHANGED shVars
  /\ cleanups < MaxCleanups
  /\ IF logCleanupRunning
     THEN /\ cleanups' = cleanups + 1
          /\ hist' = [hist EXCEPT !.cleanupAfterShutdown = @ \/ isShuttingDown]
          /\ cPc' = "sleep" /\ cWake' = now + LOG_CLEANUP_INTERVAL
     ELSE /\ cPc' = "off" /\ UNCHANGED << cWake, cleanups, hist >>
  /\ UNCHANGED << now, cfgVars, tokenFile, mainPc, acqVars, pollVars, childVars,
                  handlerVars, refreshVars, logCleanupRunning, supExit >>

TsNext ==
  \/ TsSetup
  \/ TsAcquireStart
  \/ TsAcquireRefreshResponse
  \/ TsProfilesResponse
  \/ TsSessionResponse
  \/ TsDeviceStartResponse
  \/ TsPollWake
  \/ TsPollResponse
  \/ TsSpawn
  \/ TsMainAfterExit
  \/ TsSignal
  \/ TsGraceTimer
  \/ TsHandlerAfterExit
  \/ TsRefreshCheck
  \/ TsRefreshLoopResponse
  \/ TsCleanupTimer
  \/ TsCleanupWake

tsOnlyVars == << LOG_RETENTION_DAYS, mainPc, acqVars, pollVars, isShuttingDown,
                 hPc, graceDeadline, refreshLoopRunning, rPc, rWake, rStored,
                 cleanupVars, store, loops, dl >>
monitorVars == << mPc, server_booted, auth_triggered >>
logVars == << logBooted, logAuthRequired >>
trapVars == << clPc, clWake, count >>

\* ---------------------------------------------------------------------------
\* token-manager.sh: token storage
\* ---------------------------------------------------------------------------
\* .oauth-tokens.json as save_oauth_tokens writes it
ShTokens(at, rt, ea) ==
  [kind |-> "sh_tokens", access_token |-> at, refresh_token |-> rt,
   expires_at |-> ea]

\* has_oauth_tokens: the file exists and holds a refresh token
has_oauth_tokens(file) ==
  file.kind = "sh_tokens" /\ file.refresh_token # ""

\* buffer of has_session_tokens: 5 minutes
SESSION_BUFFER == 300

\* has_session_tokens: server-tokens.json exists and its expires_at lies more
\* than 300 s ahead; sf is the stored expires_at, 0 without a file
has_session_tokens(sf, t) ==
  sf # NoTimestamp /\ sf > t + SESSION_BUFFER

\* lifetimes of the game sessions the session service hands out (seconds)
SessionLifetimes == {200, 3600}

\* a token-manager.sh invocation that has ended with exit status rc
TmDone(cmd, rc, why) ==
  [cmd |-> cmd, pc |-> "done", rc |-> rc, rt |-> "", next |-> "", why |-> why,
   deadline |-> 0, interval |-> 0, wake |-> 0]

\* a token-manager.sh invocation waiting for the answer of a request
TmWaiting(cmd, pc, rt, next) ==
  [cmd |-> cmd, pc |-> pc, rc |-> 0, rt |-> rt, next |-> next, why |-> "",
   deadline |-> 0, interval |-> 0, wake |-> 0]

\* acquire_session_tokens (token-manager.sh) up to its first request: an
\* existing valid session ends it at once, no OAuth tokens fail it, an expired
\* or missing access token is refreshed first
acquire_session_tokens(cmd, file, sf, t) ==
  IF has_session_tokens(sf, t) THEN TmDone(cmd, 0, "")
  ELSE IF ~has_oauth_tokens(file) THEN TmDone(cmd, 1, "no_oauth_tokens")
  ELSE IF \/ (file.expires_at # NoTimestamp
              /\ file.expires_at <= t + ACCESS_EXPIRY_BUFFER)
          \/ file.access_token = ""
       THEN TmWaiting(cmd, "refresh", file.refresh_token, "profiles")
       ELSE TmWaiting(cmd, "profiles", "", "")

\* validate_oauth_tokens up to its first request: only a missing access token
\* is refreshed, its expiry is not looked at
validate_oauth_tokens(file) ==
  IF ~has_oauth_tokens(file) THEN TmDone("validate", 1, "no_oauth_tokens")
  ELSE IF file.access_token = ""
       THEN TmWaiting("validate", "refresh", file.refresh_token, "vprofiles")
       ELSE TmWaiting("validate", "vprofiles", "", "")

\* token-manager.sh <cmd> up to its first request
TmBegin(cmd, file, sf, t) ==
  CASE cmd = "validate" -> validate_oauth_tokens(file)
    [] cmd = "acquire" -> acquire_session_tokens("acquire", file, sf, t)
    [] cmd = "auth" -> TmWaiting("auth", "device", "", "")

\* answers of the token endpoint to a refresh request
ShRefreshResponses ==
  {"ok_rotated", "ok_same", "http_401", "invalid_grant", "server_error",
   "network_error"}

\* refresh_oauth_tokens after the request: HTTP 401/403 and the OAuth errors
\* invalid_grant / unauthorized_client remove both token files; any other
\* failure leaves them; success saves the new tokens, keeping the old refresh
\* token when none is returned
refresh_oauth_tokens(file, sf, rt, resp, t) ==
  CASE resp \in {"http_401", "invalid_grant"} ->
         [rc |-> 1, file |-> NoFile, sf |-> NoTimestamp, deleted |-> TRUE]
    [] resp \in {"server_error", "network_error"} ->
         [rc |-> 1, file |-> file, sf |-> sf, deleted |-> FALSE]
    [] OTHER ->
         [rc |-> 0,
          file |-> ShTokens("at_refreshed",
                            IF resp = "ok_rotated" THEN "rt_rotated" ELSE rt,
                            t + TokenExpiresIn),
          sf |-> sf, deleted |-> FALSE]

\* HTTP status of the profile request of validate_oauth_tokens; 0 is the
\* "000" curl reports when no response arrived
ValidateHttpCodes == {200, 401, 503, 0}

\* validate_oauth_tokens after the profile request: 200 is valid, 401/403 is
\* invalid, of the other statuses those starting with 4 or 5 are invalid
ValidateStatus(http_code) ==
  CASE http_code = 200 -> 0
    [] http_code \in {401, 403} -> 1
    [] OTHER -> IF (http_code \div 100) \in {4, 5} THEN 1 ELSE 0

\* what the profile request of validate_oauth_tokens ended on
ValidateOutcome(http_code) ==
  CASE http_code = 200 -> "profiles_ok"
    [] http_code \in {401, 403} -> "profiles_rejected"
    [] http_code = 0 -> "profiles_network_error"
    [] OTHER -> "profiles_http_error"

\* clear_tokens: rm -f of both token files
clear_tokens(file) == NoFile

ShAlive == impl = "sh" /\ supExit = NoExit

\* ---------------------------------------------------------------------------
\* token-manager.sh: the requests of a running invocation answer.
\* c is the caller: the entrypoint ("main"), the authorization subshell of the
\* monitor ("auth") or the refresh loop ("loop").
\* ---------------------------------------------------------------------------
TmRefreshResponse(c) ==
  /\ ShAlive /\ tm[c].pc = "refresh"
  /\ \E resp \in ShRefreshResponses :
       LET r == refresh_oauth_tokens(tokenFile, sessionFile, tm[c].rt, resp, now) IN
       /\ tokenFile' = r.file
       /\ sessionFile' = r.sf
       /\ tm' = [tm EXCEPT ![c] =
                   IF r.rc = 0 THEN TmWaiting(@.cmd, @.next, "", "")
                   ELSE TmDone(@.cmd, 1, resp)]
  /\ UNCHANGED << impl, now, HYTALE_SERVER_SESSION_TOKEN, AUTO_AUTH_ON_START,
                  DRY_RUN, tsOnlyVars, childVars, termSentAt, killSentAt,
                  checks, supExit, TOKENS_LOADED, shPc, monitorVars, aPc,
                  aWake, lPc, lWake, logVars, trapVars, hist >>

TmValidateResponse(c) ==
  /\ ShAlive /\ tm[c].pc = "vprofiles"
  /\ \E http_code \in ValidateHttpCodes :
       tm' = [tm EXCEPT ![c] = TmDone("validate", ValidateStatus(http_code),
                                      ValidateOutcome(http_code))]
  /\ UNCHANGED << impl, now, HYTALE_SERVER_SESSION_TOKEN, AUTO_AUTH_ON_START,
                  DRY_RUN, tsOnlyVars, tokenFile, childVars, termSentAt,
                  killSentAt, checks, supExit, sessionFile, TOKENS_LOADED,
                  shPc, monitorVars, aPc, aWake, lPc, lWake, logVars, trapVars,
                  hist >>

\* get_game_profiles answers: without a profile the acquisition fails
TmProfilesResponse(c) ==
  /\ ShAlive /\ tm[c].pc = "profiles"
  /\ \E resp \in {"ok", "no_profile"} :
       tm' = [tm EXCEPT ![c] = IF resp = "ok" THEN TmWaiting(@.cmd, "session", "", "")
                               ELSE TmDone(@.cmd, 1, "no_profile")]
  /\ UNCHANGED << impl, now, HYTALE_SERVER_SESSION_TOKEN, AUTO_AUTH_ON_START,
                  DRY_RUN, tsOnlyVars, tokenFile, childVars, termSentAt,
                  killSentAt, checks, supExit, sessionFile, TOKENS_LOADED,
                  shPc, monitorVars, aPc, aWake, lPc, lWake, logVars, trapVars,
                  hist >>

\* create_game_session answers: the session is saved with the expiry given
TmSessionResponse(c) ==
  /\ ShAlive /\ tm[c].pc = "session"
  /\ \/ \E life \in SessionLifetimes :
          /\ sessionFile' = now + life
          /\ tm' = [tm EXCEPT ![c] = TmDone(@.cmd, 0, "")]
     \/ /\ sessionFile' = sessionFile
        /\ tm' = [tm EXCEPT ![c] = TmDone(@.cmd, 1, "session_error")]
  /\ UNCHANGED << impl, now, HYTALE_SERVER_SESSION_TOKEN, AUTO_AUTH_ON_START,
                  DRY_RUN, tsOnlyVars, tokenFile, childVars, termSentAt,
                  killSentAt, checks, supExit, TOKENS_LOADED, shPc,
                  monitorVars, aPc, aWake, lPc, lWake, logVars, trapVars,
                  hist >>

\* expires_in of the device challenges handed to token-manager.sh (seconds)
ShDeviceExpiresIn == 3

\* start_device_auth answers; poll_for_token computes its deadline and sleeps
TmDeviceResponse(c) ==
  /\ ShAlive /\ tm[c].pc = "device"
  /\ \E resp \in {"ok", "error"} :
       tm' = [tm EXCEPT ![c] =
                IF resp = "ok"
                THEN [@ EXCEPT !.pc = "pollSleep",
                               !.deadline = now + ShDeviceExpiresIn,
                               !.interval = DeviceInterval,
                               !.wake = now + DeviceInterval]
                ELSE TmDone("auth", 1, "device_error")]
  /\ UNCHANGED << impl, now, HYTALE_SERVER_SESSION_TOKEN, AUTO_AUTH_ON_START,
                  DRY_RUN, tsOnlyVars, tokenFile, childVars, termSentAt,
                  killSentAt, checks, supExit, sessionFile, TOKENS_LOADED,
                  shPc, monitorVars, aPc, aWake, lPc, lWake, logVars, trapVars,
                  hist >>

\* poll_for_token: sleep "$interval" is over, the token request is sent
TmPollWake(c) ==
  /\ ShAlive /\ tm[c].pc = "pollSleep" /\ now >= tm[c].wake
  /\ tm' = [tm EXCEPT ![c].pc = "pollFetch"]
  /\ UNCHANGED << impl, now, HYTALE_SERVER_SESSION_TOKEN, AUTO_AUTH_ON_START,
                  DRY_RUN, tsOnlyVars, tokenFile, childVars, termSentAt,
                  killSentAt, checks, supExit, sessionFile, TOKENS_LOADED,
                  shPc, monitorVars, aPc, aWake, lPc, lWake, logVars, trapVars,
                  hist >>

\* poll_for_token: the token request answers; after success device_auth_flow
\* goes on with acquire_session_tokens
TmPollResponse(c) ==
  /\ ShAlive /\ tm[c].pc = "pollFetch"
  /\ \E resp \in {"authorization_pending", "slow_down", "access_denied", "success"} :
       CASE resp \in {"authorization_pending", "slow_down"} ->
              LET iv == IF resp = "slow_down" THEN tm[c].interval + SLOW_DOWN_STEP
                        ELSE tm[c].interval IN
              /\ tm' = [tm EXCEPT ![c] =
                          IF now < @.deadline
                          THEN [@ EXCEPT !.pc = "pollSleep", !.interval = iv,
                                         !.wake = now + iv]
                          ELSE TmDone("auth", 1, "timed_out")]
              /\ hist' = [hist EXCEPT !.lastPoll =
                            IF now < tm[c].deadline THEN resp ELSE "none"]
              /\ tokenFile' = tokenFile
         [] resp = "success" ->
              LET saved == ShTokens("at_device", "rt_device", now + TokenExpiresIn) IN
              /\ tokenFile' = saved
              /\ tm' = [tm EXCEPT ![c] =
                          acquire_session_tokens("auth", saved, sessionFile, now)]
              /\ hist' = [hist EXCEPT !.lastPoll = "none"]
         [] OTHER ->
              /\ tm' = [tm EXCEPT ![c] = TmDone("auth", 1, resp)]
              /\ hist' = [hist EXCEPT !.lastPoll = "none"]
              /\ tokenFile' = tokenFile
  /\ UNCHANGED << impl, now, HYTALE_SERVER_SESSION_TOKEN, AUTO_AUTH_ON_START,
                  DRY_RUN, tsOnlyVars, childVars, termSentAt, killSentAt,
                  checks, supExit, sessionFile, TOKENS_LOADED, shPc,
                  monitorVars, aPc, aWake, lPc, lWake, logVars, trapVars >>

\* ---------------------------------------------------------------------------
\* entrypoint.sh: main, acquire_session_tokens, start_server
\* ---------------------------------------------------------------------------
\* token files found on the data volume by the bash entrypoint
ShInitialTokenFiles ==
  { NoFile,
    \* access token still valid
    ShTokens("at_stored", "abc", StartTime + TokenExpiresIn),
    \* access token expired a day ago
    ShTokens("at_stored", "abc", StartTime - DAY),
    \* no access token stored
    ShTokens("", "abc", NoTimestamp) }

\* expires_at of the session files found at start: none, or one valid for
\* another 400 s
ShInitialSessionFiles == {NoTimestamp, StartTime + 400}

InitSh ==
  /\ impl = "sh"
  /\ now = StartTime
  /\ HYTALE_SERVER_SESSION_TOKEN \in {"", "env_session"}
  /\ AUTO_AUTH_ON_START \in BOOLEAN
  /\ DRY_RUN \in BOOLEAN
  /\ LOG_RETENTION_DAYS = 7
  /\ tokenFile \in ShInitialTokenFiles
  /\ sessionFile \in ShInitialSessionFiles
  /\ mainPc = "off"
  /\ acqPc = "idle"
  /\ oauthTokens = NoTokens
  /\ sessionTokens = NoSession
  /\ acqVia = "stored"
  /\ pollDeadline = 0 /\ pollInterval = 0 /\ pollWake = 0
  /\ javaProcess = "null"
  /\ childExitCode = NoExit
  /\ isShuttingDown = FALSE
  /\ hPc = "idle"
  /\ graceDeadline = 0
  /\ termSentAt = 0 /\ killSentAt = 0
  /\ refreshLoopRunning = FALSE /\ rPc = "off" /\ rWake = 0
  /\ rStored = NoTokens /\ checks = 0
  /\ logCleanupRunning = FALSE /\ cPc = "off" /\ cWake = 0 /\ cleanups = 0
  /\ supExit = NoExit
  /\ children = 0
  /\ hist = InitHist
  /\ store = StoreIdle
  /\ loops = LoopsIdle
  /\ dl = DlIdle
  /\ TOKENS_LOADED = FALSE
  /\ shPc = "download"
  /\ tm = [c \in TmCallers |-> TmIdle]
  /\ mPc = "off" /\ server_booted = FALSE /\ auth_triggered = FALSE
  /\ aPc = "off" /\ aWake = 0
  /\ lPc = "off" /\ lWake = 0
  /\ logBooted = FALSE /\ logAuthRequired = FALSE
  /\ clPc = "idle" /\ clWake = 0 /\ count = 0

\* the main shell runs its script (it is not inside the trap handler)
ShMainRuns == ShAlive /\ clPc = "idle"

\* main: download_server; a failing download.sh ends the script (set -e)
ShDownload ==
  /\ ShMainRuns /\ shPc = "download"
  /\ \E ok \in BOOLEAN :
       IF ok THEN shPc' = "acquire" /\ supExit' = supExit
       ELSE shPc' = "fatal" /\ supExit' = 1
  /\ UNCHANGED << impl, now, HYTALE_SERVER_SESSION_TOKEN, AUTO_AUTH_ON_START,
                  DRY_RUN, tsOnlyVars, tokenFile, childVars, termSentAt,
                  killSentAt, checks, sessionFile, TOKENS_LOADED, tm,
                  monitorVars, aPc, aWake, lPc, lWake, logVars, trapVars,
                  hist >>

\* acquire_session_tokens (entrypoint.sh): environment tokens are used as they
\* are; stored OAuth tokens are validated first; otherwise token-manager.sh
\* acquire is tried
ShAcquireBegin ==
  /\ ShMainRuns /\ shPc = "acquire"
  /\ IF HYTALE_SERVER_SESSION_TOKEN # ""
     THEN /\ TOKENS_LOADED' = TRUE /\ shPc' = "start" /\ tm' = tm
     ELSE /\ TOKENS_LOADED' = TOKENS_LOADED
          /\ IF has_oauth_tokens(tokenFile)
             THEN /\ shPc' = "validating"
                  /\ tm' = [tm EXCEPT !["main"] =
                              TmBegin("validate", tokenFile, sessionFile, now)]
             ELSE /\ shPc' = "acquiring"
                  /\ tm' = [tm EXCEPT !["main"] =
                              TmBegin("acquire", tokenFile, sessionFile, now)]
  /\ UNCHANGED << impl, now, HYTALE_SERVER_SESSION_TOKEN, AUTO_AUTH_ON_START,
                  DRY_RUN, tsOnlyVars, tokenFile, childVars, termSentAt,
                  killSentAt, checks, supExit, sessionFile, monitorVars, aPc,
                  aWake, lPc, lWake, logVars, trapVars, hist >>

\* token-manager.sh validate returned: a failure clears the stored tokens and
\* ends the acquisition, a success goes on with token-manager.sh acquire
ShValidated ==
  /\ ShMainRuns /\ shPc = "validating" /\ tm["main"].pc = "done"
  /\ IF tm["main"].rc # 0
     THEN /\ tokenFile' = clear_tokens(tokenFile)
          /\ sessionFile' = NoTimestamp
          /\ TOKENS_LOADED' = FALSE
          /\ shPc' = "start"
          /\ tm' = [tm EXCEPT !["main"] = TmIdle]
     ELSE /\ shPc' = "acquiring"
          /\ tm' = [tm EXCEPT !["main"] =
                      TmBegin("acquire", tokenFile, sessionFile, now)]
          /\ UNCHANGED << tokenFile, sessionFile, TOKENS_LOADED >>
  /\ UNCHANGED << impl, now, HYTALE_SERVER_SESSION_TOKEN, AUTO_AUTH_ON_START,
                  DRY_RUN, tsOnlyVars, childVars, termSentAt, killSentAt,
                  checks, supExit, monitorVars, aPc, aWake, lPc, lWake,
                  logVars, trapVars, hist >>

\* export_tokens succeeds when a valid session is stored
export_tokens(sf, t) == has_session_tokens(sf, t)

\* the end of acquire_session_tokens (entrypoint.sh) after token-manager.sh
\* acquire or auth returned rc: load the exported session or give up
ShLoadExported(rc) ==
  IF rc = 0 /\ export_tokens(sessionFile, now)
  THEN /\ TOKENS_LOADED' = TRUE
       /\ HYTALE_SERVER_SESSION_TOKEN' = "session_stored"
  ELSE /\ TOKENS_LOADED' = FALSE
       /\ HYTALE_SERVER_SESSION_TOKEN' = HYTALE_SERVER_SESSION_TOKEN

\* token-manager.sh acquire returned: load the session, or start the device
\* authorization when AUTO_AUTH_DEVICE_ON_START is set
ShAcquired ==
  /\ ShMainRuns /\ shPc = "acquiring" /\ tm["main"].pc = "done"
  /\ IF (tm["main"].rc = 0 /\ export_tokens(sessionFile, now))
        \/ ~AUTO_AUTH_ON_START
     THEN /\ ShLoadExported(tm["main"].rc)
          /\ shPc' = "start"
          /\ tm' = [tm EXCEPT !["main"] = TmIdle]
     ELSE /\ shPc' = "authing"
          /\ tm' = [tm EXCEPT !["main"] =
                      TmBegin("auth", tokenFile, sessionFile, now)]
          /\ UNCHANGED << TOKENS_LOADED, HYTALE_SERVER_SESSION_TOKEN >>
  /\ UNCHANGED << impl, now, AUTO_AUTH_ON_START, DRY_RUN, tsOnlyVars,
                  tokenFile, childVars, termSentAt, killSentAt, checks,
                  supExit, sessionFile, monitorVars, aPc, aWake, lPc, lWake,
                  logVars, trapVars, hist >>

\* token-manager.sh auth returned
ShAuthed ==
  /\ ShMainRuns /\ shPc = "authing" /\ tm["main"].pc = "done"
  /\ ShLoadExported(tm["main"].rc)
  /\ shPc' = "start"
  /\ tm' = [tm EXCEPT !["main"] = TmIdle]
  /\ UNCHANGED << impl, now, AUTO_AUTH_ON_START, DRY_RUN, tsOnlyVars,
                  tokenFile, childVars, termSentAt, killSentAt, checks,
                  supExit, sessionFile, monitorVars, aPc, aWake, lPc, lWake,
                  logVars, trapVars, hist >>

\* build_java_args: a flag for each of the three variables that is set; the
\* session loaded by export_tokens brings all three, a token given in the
\* environment comes alone here
build_java_args(envToken) ==
  CASE envToken = "" -> {}
    [] envToken = "session_stored" ->
         {"--session-token", "--identity-token", "--owner-uuid"}
    [] OTHER -> {"--session-token"}

\* sleep 30 of start_token_refresh_loop before its first check
LOOP_INITIAL_DELAY == 30

\* main: acquire_session_tokens has returned
ShAcquisitionReturned == shPc = "start"

\* start_server: die without the server files, leave in DRY_RUN, else start
\* the pipeline in its own process group, the monitor and the refresh loop
\* start_server: java_args=$(build_java_args);
\* log_info "Java command: java $java_args"
ShJavaCommandLogged ==
  LET java_args == build_java_args(HYTALE_SERVER_SESSION_TOKEN)
  IN [hist EXCEPT !.sessionFlags = java_args,
                  !.logged = maskSecrets(java_args \cap SecretFlags)]

ShStartServer ==
  /\ ShMainRuns /\ ShAcquisitionReturned
  /\ \E filesPresent \in BOOLEAN :
       IF ~filesPresent
       THEN /\ supExit' = 1 /\ shPc' = "fatal"
            /\ UNCHANGED << childVars, mPc, lPc, lWake, hist >>
       ELSE IF DRY_RUN
       THEN /\ supExit' = 0 /\ shPc' = "dryRun"
            /\ hist' = ShJavaCommandLogged
            /\ UNCHANGED << childVars, mPc, lPc, lWake >>
       ELSE /\ hist' = ShJavaCommandLogged
            /\ javaProcess' = "running" /\ childExitCode' = childExitCode
            /\ children' = children + 1
            /\ mPc' = "run"
            /\ lPc' = "sleep" /\ lWake' = now + LOOP_INITIAL_DELAY
            /\ shPc' = "wait"
            /\ supExit' = supExit
  /\ UNCHANGED << impl, now, HYTALE_SERVER_SESSION_TOKEN, AUTO_AUTH_ON_START,
                  DRY_RUN, tsOnlyVars, tokenFile, termSentAt, killSentAt,
                  checks, sessionFile, TOKENS_LOADED, tm, server_booted,
                  auth_triggered, aPc, aWake, logVars, trapVars >>

\* variant of ShServerExitCode: start_server leaves with the status of the
\* server, as `wait "$SERVER_PID"; exit $?` would
ExitCodeOfServer(code) == code

\* exit code start_server leaves with once Java is gone: local exit_code=0
ShServerExitCode(code) == 0

\* start_server: the wait loop finds no Java process, twice; exit
ShMainAfterExit ==
  /\ ShMainRuns /\ shPc = "wait" /\ javaProcess = "exited"
  /\ supExit' = ShServerExitCode(childExitCode)
  /\ shPc' = "exited"
  /\ UNCHANGED << impl, now, HYTALE_SERVER_SESSION_TOKEN, AUTO_AUTH_ON_START,
                  DRY_RUN, tsOnlyVars, tokenFile, childVars, termSentAt,
                  killSentAt, checks, sessionFile, TOKENS_LOADED, tm,
                  monitorVars, aPc, aWake, lPc, lWake, logVars, trapVars,
                  hist >>

\* the server writes one of the lines the monitor looks for
ShServerOutput ==
  /\ ShAlive /\ javaProcess = "running"
  /\ \/ /\ ~logBooted /\ logBooted' = TRUE /\ logAuthRequired' = logAuthRequired
     \/ /\ ~logAuthRequired /\ logAuthRequired' = TRUE /\ logBooted' = logBooted
  /\ UNCHANGED << impl, now, HYTALE_SERVER_SESSION_TOKEN, AUTO_AUTH_ON_START,
                  DRY_RUN, tsOnlyVars, tokenFile, childVars, termSentAt,
                  killSentAt, checks, supExit, sessionFile, TOKENS_LOADED,
                  shPc, tm, monitorVars, aPc, aWake, lPc, lWake, trapVars,
                  hist >>

\* one round of the monitor subshell: leave when the server is gone; note the
\* boot; start the device authorization once, on the server's request after
\* boot or, without preloaded tokens, as the startup fallback
ShMonitorPoll ==
  /\ ShAlive /\ mPc = "run"
  /\ IF javaProcess # "running"
     THEN /\ mPc' = "off"
          /\ UNCHANGED << server_booted, auth_triggered, aPc, tm >>
     ELSE LET booted == server_booted \/ logBooted
              onRequest == ~auth_triggered /\ booted /\ logAuthRequired
              fallback == /\ AUTO_AUTH_ON_START /\ booted
                          /\ ~(auth_triggered \/ onRequest \/ TOKENS_LOADED)
          IN
          /\ mPc' = mPc
          /\ server_booted' = booted
          /\ auth_triggered' = (auth_triggered \/ onRequest \/ TOKENS_LOADED
                                \/ fallback)
          /\ IF onRequest \/ fallback
             THEN /\ aPc' = "auth"
                  /\ tm' = [tm EXCEPT !["auth"] =
                              TmBegin("auth", tokenFile, sessionFile, now)]
             ELSE UNCHANGED << aPc, tm >>
  /\ UNCHANGED << impl, now, HYTALE_SERVER_SESSION_TOKEN, AUTO_AUTH_ON_START,
                  DRY_RUN, tsOnlyVars, tokenFile, childVars, termSentAt,
                  killSentAt, checks, supExit, sessionFile, TOKENS_LOADED,
                  shPc, aWake, lPc, lWake, logVars, trapVars, hist >>

\* sleep 1 between the two signals of the authorization subshell
AUTH_RESTART_GRACE == 1

\* variant of ShAuthSubshellDone: the process group is signalled whatever
\* token-manager.sh auth returned
ShAuthSubshellRestartsAlways ==
  /\ ShAlive /\ aPc = "auth" /\ tm["auth"].pc = "done"
  /\ tm' = [tm EXCEPT !["auth"] = TmIdle]
  /\ hist' = [hist EXCEPT !.restartRequested = @ \cup {"auth"}]
  /\ aPc' = "sleep" /\ aWake' = now + AUTH_RESTART_GRACE
  /\ UNCHANGED << impl, now, HYTALE_SERVER_SESSION_TOKEN, AUTO_AUTH_ON_START,
                  DRY_RUN, tsOnlyVars, tokenFile, childVars, termSentAt,
                  killSentAt, checks, supExit, sessionFile, TOKENS_LOADED,
                  shPc, monitorVars, lPc, lWake, logVars, trapVars >>

\* authorization subshell: token-manager.sh auth returned; on success the
\* server's process group gets SIGTERM
ShAuthSubshellDone ==
  /\ ShAlive /\ aPc = "auth" /\ tm["auth"].pc = "done"
  /\ tm' = [tm EXCEPT !["auth"] = TmIdle]
  /\ IF tm["auth"].rc = 0
     THEN /\ hist' = [hist EXCEPT !.restartRequested = @ \cup {"auth"}]
          /\ aPc' = "sleep" /\ aWake' = now + AUTH_RESTART_GRACE
     ELSE /\ hist' = hist /\ aPc' = "off" /\ aWake' = aWake
  /\ UNCHANGED << impl, now, HYTALE_SERVER_SESSION_TOKEN, AUTO_AUTH_ON_START,
                  DRY_RUN, tsOnlyVars, tokenFile, childVars, termSentAt,
                  killSentAt, checks, supExit, sessionFile, TOKENS_LOADED,
                  shPc, monitorVars, lPc, lWake, logVars, trapVars >>

\* authorization subshell: SIGKILL to the process group after the sleep
ShAuthSubshellKill ==
  /\ ShAlive /\ aPc = "sleep" /\ now >= aWake
  /\ hist' = [hist EXCEPT !.killSent = @ \cup {"auth"}]
  /\ aPc' = "off"
  /\ UNCHANGED << impl, now, HYTALE_SERVER_SESSION_TOKEN, AUTO_AUTH_ON_START,
                  DRY_RUN, tsOnlyVars, tokenFile, childVars, termSentAt,
                  killSentAt, checks, supExit, sessionFile, TOKENS_LOADED,
                  shPc, tm, monitorVars, aWake, lPc, lWake, logVars, trapVars >>

\* ---------------------------------------------------------------------------
\* entrypoint.sh: start_token_refresh_loop, trigger_server_restart
\* ---------------------------------------------------------------------------
TOKEN_CHECK_INTERVAL == 300
REFRESH_BUFFER == 600
\* sleep 2 between the two signals of trigger_server_restart
RESTART_GRACE == 2

\* trigger_server_restart, first half: SIGTERM to the process group, sleep 2
trigger_server_restart ==
  /\ lPc' = "restart" /\ lWake' = now + RESTART_GRACE
  /\ checks' = checks

\* a round of the loop: leave when Java is gone; when the session expires
\* within REFRESH_BUFFER run token-manager.sh acquire; else sleep
ShLoopCheck ==
  /\ ShAlive /\ lPc = "sleep" /\ now >= lWake /\ checks < MaxChecks
  /\ IF javaProcess # "running"
     THEN /\ lPc' = "off" /\ UNCHANGED << lWake, checks, tm >>
     ELSE IF sessionFile # NoTimestamp /\ sessionFile - now <= REFRESH_BUFFER
     THEN /\ lPc' = "acquiring" /\ UNCHANGED << lWake, checks >>
          /\ tm' = [tm EXCEPT !["loop"] =
                      TmBegin("acquire", tokenFile, sessionFile, now)]
     ELSE /\ lPc' = "sleep" /\ lWake' = now + TOKEN_CHECK_INTERVAL
          /\ checks' = checks + 1 /\ tm' = tm
  /\ UNCHANGED << impl, now, HYTALE_SERVER_SESSION_TOKEN, AUTO_AUTH_ON_START,
                  DRY_RUN, tsOnlyVars, tokenFile, childVars, termSentAt,
                  killSentAt, supExit, sessionFile, TOKENS_LOADED, shPc,
                  monitorVars, aPc, aWake, logVars, trapVars, hist >>

\* token-manager.sh acquire of the loop returned: a failure or a session that
\* still expires within REFRESH_BUFFER of the check restarts the server
ShLoopAcquired ==
  /\ ShAlive /\ lPc = "acquiring" /\ tm["loop"].pc = "done"
  /\ tm' = [tm EXCEPT !["loop"] = TmIdle]
  /\ IF tm["loop"].rc = 0
     THEN IF sessionFile > lWake + REFRESH_BUFFER
          THEN /\ lPc' = "sleep" /\ lWake' = now + TOKEN_CHECK_INTERVAL
               /\ checks' = checks + 1 /\ hist' = hist
          ELSE /\ trigger_server_restart
               /\ hist' = [hist EXCEPT !.restartRequested = @ \cup {"loop"}]
     ELSE /\ trigger_server_restart
          /\ hist' = [hist EXCEPT !.refreshFailed = TRUE,
                                  !.restartRequested = @ \cup {"loop"}]
  /\ UNCHANGED << impl, now, HYTALE_SERVER_SESSION_TOKEN, AUTO_AUTH_ON_START,
                  DRY_RUN, tsOnlyVars, tokenFile, childVars, termSentAt,
                  killSentAt, supExit, sessionFile, TOKENS_LOADED, shPc,
                  monitorVars, aPc, aWake, logVars, trapVars >>

\* trigger_server_restart, second half: SIGKILL; the loop breaks
ShLoopKill ==
  /\ ShAlive /\ lPc = "restart" /\ now >= lWake
  /\ hist' = [hist EXCEPT !.killSent = @ \cup {"loop"}]
  /\ lPc' = "off"
  /\ UNCHANGED << impl, now, HYTALE_SERVER_SESSION_TOKEN, AUTO_AUTH_ON_START,
                  DRY_RUN, tsOnlyVars, tokenFile, childVars, termSentAt,
                  killSentAt, checks, supExit, sessionFile, TOKENS_LOADED,
                  shPc, tm, monitorVars, aPc, aWake, lWake, logVars, trapVars >>

\* ---------------------------------------------------------------------------
\* entrypoint.sh: trap cleanup SIGTERM SIGINT SIGHUP
\* ---------------------------------------------------------------------------
\* set -euo pipefail
ERREXIT == TRUE
\* local timeout=30
CLEANUP_TIMEOUT == 30
\* sleep 1
CLEANUP_POLL == 1

\* exit status of (( expr )): 1 when the expression evaluates to 0
ArithStatus(value) == IF value = 0 THEN 1 ELSE 0

\* the signal arrives; the handler runs once the foreground command is over.
\* Without a server it exits at once; else SIGTERM goes to the process group
\* and the wait loop starts
ShSignal ==
  /\ ShMainRuns /\ tm["main"].pc \in {"idle", "done"}
  /\ IF shPc # "wait"
     THEN /\ supExit' = 0 /\ clPc' = "done"
          /\ UNCHANGED << termSentAt, clWake, count >>
     ELSE /\ termSentAt' = now
          /\ count' = 0
          /\ IF javaProcess = "running" /\ 0 < CLEANUP_TIMEOUT
             THEN /\ clPc' = "sleep" /\ clWake' = now + CLEANUP_POLL
                  /\ supExit' = supExit
             ELSE /\ clPc' = "done" /\ clWake' = clWake /\ supExit' = 0
  /\ UNCHANGED << impl, now, HYTALE_SERVER_SESSION_TOKEN, AUTO_AUTH_ON_START,
                  DRY_RUN, tsOnlyVars, tokenFile, childVars, killSentAt,
                  checks, sessionFile, TOKENS_LOADED, shPc, tm, monitorVars,
                  aPc, aWake, lPc, lWake, logVars, hist >>

\* sleep 1 of the wait loop is over: ((count++)), then the loop condition and,
\* past the loop, the forced kill and exit 0
ShCleanupTick ==
  /\ ShAlive /\ clPc = "sleep" /\ now >= clWake
  /\ count' = count + 1
  /\ IF ERREXIT /\ ArithStatus(count) # 0
     THEN /\ supExit' = ArithStatus(count) /\ clPc' = "done"
          /\ UNCHANGED << clWake, killSentAt >>
     ELSE IF javaProcess = "running" /\ count + 1 < CLEANUP_TIMEOUT
     THEN /\ clPc' = "sleep" /\ clWake' = now + CLEANUP_POLL
          /\ UNCHANGED << supExit, killSentAt >>
     ELSE /\ killSentAt' = IF javaProcess = "running" THEN now ELSE killSentAt
          /\ supExit' = 0 /\ clPc' = "done" /\ clWake' = clWake
  /\ UNCHANGED << impl, now, HYTALE_SERVER_SESSION_TOKEN, AUTO_AUTH_ON_START,
                  DRY_RUN, tsOnlyVars, tokenFile, childVars, termSentAt,
                  checks, sessionFile, TOKENS_LOADED, shPc, tm, monitorVars,
                  aPc, aWake, lPc, lWake, logVars, hist >>

ShNext ==
  \/ ShDownload
  \/ ShAcquireBegin
  \/ ShValidated
  \/ ShAcquired
  \/ ShAuthed
  \/ ShStartServer
  \/ ShMainAfterExit
  \/ ShServerOutput
  \/ ShMonitorPoll
  \/ ShAuthSubshellDone
  \/ ShAuthSubshellKill
  \/ ShLoopCheck
  \/ ShLoopAcquired
  \/ ShLoopKill
  \/ ShSignal
  \/ ShCleanupTick
  \/ \E c \in TmCallers :
       \/ TmRefreshResponse(c)
       \/ TmValidateResponse(c)
       \/ TmProfilesResponse(c)
       \/ TmSessionResponse(c)
       \/ TmDeviceResponse(c)
       \/ TmPollWake(c)
       \/ TmPollResponse(c)

\* ---------------------------------------------------------------------------
\* The child process (java)
\* ---------------------------------------------------------------------------
\* exit codes of a child that stops by itself
OwnExitCodes == {0, 1}
\* exit codes of a child that stops on SIGTERM (handled, or default action)
TermExitCodes == {0, 143}
\* exit code reported for a child killed with SIGKILL
KilledExitCode == 137

\* the child exits: by itself, on a graceful signal, or killed
ChildExits ==
  /\ supExit = NoExit /\ javaProcess = "running"
  /\ \E c \in OwnExitCodes \cup TermExitCodes \cup {KilledExitCode} :
       /\ c = KilledExitCode <=> (killSentAt # 0 \/ hist.killSent # {})
       /\ (c \in TermExitCodes \ OwnExitCodes)
            => (termSentAt # 0 \/ hist.restartRequested # {})
       /\ childExitCode' = c
  /\ javaProcess' = "exited"
  /\ children' = children - 1
  /\ UNCHANGED << now, cfgVars, tokenFile, mainPc, acqVars, pollVars,
                  handlerVars, refreshVars, cleanupVars, supExit, hist, shVars >>

\* ---------------------------------------------------------------------------
\* Time
\* ---------------------------------------------------------------------------
\* deadlines of the timers that are armed, in a run followed for maxChecks
\* refresh checks
Deadlines(maxChecks) ==
  (IF acqPc = "pollSleep" THEN {pollWake} ELSE {})
  \cup (IF graceDeadline # 0 THEN {graceDeadline} ELSE {})
  \cup (IF rPc \in {"timer", "sleep"} /\ checks < maxChecks THEN {rWake} ELSE {})
  \cup (IF cPc = "timer" \/ (cPc = "sleep" /\ cleanups < MaxCleanups)
        THEN {cWake} ELSE {})
  \cup {tm[c].wake : c \in {d \in TmCallers : tm[d].pc = "pollSleep"}}
  \cup (IF aPc = "sleep" THEN {aWake} ELSE {})
  \cup (IF lPc = "restart" \/ (lPc = "sleep" /\ checks < maxChecks)
        THEN {lWake} ELSE {})
  \cup (IF clPc = "sleep" THEN {clWake} ELSE {})

Min(S) == CHOOSE x \in S : \A y \in S : x <= y

\* the clock jumps to the next deadline; a due timer fires first
AdvanceTimeTo(maxChecks) ==
  /\ supExit = NoExit
  /\ Deadlines(maxChecks) # {}
  /\ \A d \in Deadlines(maxChecks) : d > now
  /\ now' = Min(Deadlines(maxChecks))
  /\ UNCHANGED << cfgVars, tokenFile, mainPc, acqVars, pollVars, childVars,
                  handlerVars, refreshVars, cleanupVars, supExit, hist, shVars >>

AdvanceTime == AdvanceTimeTo(MaxChecks)

\* ---------------------------------------------------------------------------
\* Specifications
\* ---------------------------------------------------------------------------
\* both entrypoints
Init == InitTs \/ InitSh

Next ==
  \/ TsNext
  \/ ShNext
  \/ ChildExits
  \/ AdvanceTime

Spec == Init /\ [][Next]_vars

\* the TypeScript entrypoint alone
NextTs ==
  \/ TsNext
  \/ ChildExits
  \/ AdvanceTime

SpecTs == InitTs /\ [][NextTs]_vars

\* the TypeScript entrypoint with its scheduling: the event loop runs every
\* continuation that is ready and every timer that is due, and the clock
\* goes on. Nothing is assumed of the endpoints, the server process or the
\* signals: a response, an exit or a signal may never come.
FairTs ==
  /\ WF_vars(TsSetup) /\ WF_vars(TsAcquireStart) /\ WF_vars(TsPollWake)
  /\ WF_vars(TsSpawn) /\ WF_vars(TsMainAfterExit) /\ WF_vars(TsGraceTimer)
  /\ WF_vars(TsHandlerAfterExit) /\ WF_vars(TsRefreshCheck)
  /\ WF_vars(TsCleanupTimer) /\ WF_vars(TsCleanupWake)
  /\ WF_vars(AdvanceTime)

SpecTsFair == InitTs /\ [][NextTs]_vars /\ FairTs

\* acquireSessionTokens awaits the response of a fetch
AcqRequestPending ==
  acqPc \in {"refresh", "profiles", "session", "deviceStart", "pollFetch"}

\* the bash entrypoint alone
NextSh ==
  \/ ShNext
  \/ ChildExits
  \/ AdvanceTime

SpecSh == InitSh /\ [][NextSh]_vars

\* ---------------------------------------------------------------------------
\* A long run of the TypeScript supervisor under default settings: the server
\* is up, both background loops have been started, the refresh endpoint
\* answers every request with new tokens
\* ---------------------------------------------------------------------------
\* token files at the start of the run: refreshed k days ago, or written
\* before refreshedAt existed
KeepAliveTokenFiles ==
  { Tokens("at_stored", "abc", StartTime - DAY + TokenExpiresIn, StartTime - k * DAY) :
      k \in 0 .. (REFRESH_TOKEN_LIFETIME_DAYS - 1) }
  \cup { Tokens("at_stored", "abc", StartTime + TokenExpiresIn, NoTimestamp) }

InitKeepAlive ==
  /\ impl = "ts"
  /\ now = StartTime
  /\ HYTALE_SERVER_SESSION_TOKEN = "env_session"
  /\ AUTO_AUTH_ON_START = TRUE
  /\ DRY_RUN = FALSE
  /\ LOG_RETENTION_DAYS = 7
  /\ tokenFile \in KeepAliveTokenFiles
  /\ mainPc = "waitExit"
  /\ acqPc = "done"
  /\ oauthTokens = NoTokens
  /\ sessionTokens = [kind |-> "session", source |-> "environment",
                      sessionToken |-> HYTALE_SERVER_SESSION_TOKEN]
  /\ acqVia = "stored"
  /\ pollDeadline = 0 /\ pollInterval = 0 /\ pollWake = 0
  /\ javaProcess = "running"
  /\ childExitCode = NoExit
  /\ isShuttingDown = FALSE
  /\ hPc = "idle"
  /\ graceDeadline = 0
  /\ termSentAt = 0 /\ killSentAt = 0
  /\ refreshLoopRunning = TRUE /\ rPc = "timer"
  /\ rWake = StartTime + REFRESH_INITIAL_DELAY
  /\ rStored = NoTokens /\ checks = 0
  /\ logCleanupRunning = TRUE /\ cPc = "timer"
  /\ cWake = StartTime + LOG_CLEANUP_INTERVAL /\ cleanups = 0
  /\ supExit = NoExit
  /\ children = 1
  /\ hist = [InitHist EXCEPT
               !.lastRefreshAt = LastRefreshOf(tokenFile, StartTime - 22 * DAY)]
  /\ store = StoreIdle
  /\ loops = LoopsIdle
  /\ dl = DlIdle
  /\ InitShIdle

KaRefreshCheck == RefreshCheck(MaxKeepAliveChecks)
KaRefreshLoopResponse == RefreshLoopResponse({"ok_rotated", "ok_same"})
\* the endpoint answers a request before the next timer is due
KaAdvanceTime == rPc # "inflight" /\ AdvanceTimeTo(MaxKeepAliveChecks)

NextKeepAlive ==
  \/ KaRefreshCheck
  \/ KaRefreshLoopResponse
  \/ TsCleanupTimer
  \/ TsCleanupWake
  \/ KaAdvanceTime

SpecKeepAlive == InitKeepAlive /\ [][NextKeepAlive]_vars

\* ---------------------------------------------------------------------------
\* The token store of token-manager.ts used on its own: one process saves or
\* refreshes the tokens, a second one (a later start of the supervisor, or
\* any process sharing the data volume) loads the file at some moment.
\* ---------------------------------------------------------------------------
MaxStoreTicks == 2

\* token files on the volume before the store is used
StoreTokenFiles ==
  { NoFile, EmptyFile, CorruptFile,
    \* access token expired, refreshed 23 days ago
    Tokens("at_stored", "abc", StartTime - DAY, StartTime - 23 * DAY),
    \* the same, refreshed one second later
    Tokens("at_stored", "abc", StartTime - DAY, StartTime - 23 * DAY + 1),
    \* access token expired, file written before refreshedAt existed
    Tokens("at_stored", "abc", StartTime - DAY, NoTimestamp),
    \* access token still valid
    Tokens("at_stored", "abc", StartTime + TokenExpiresIn, StartTime - DAY),
    \* parsable file without a refresh token
    Tokens("at_stored", "", StartTime + TokenExpiresIn, StartTime - DAY) }

\* valid OAuthTokens values handed to saveOAuthTokens
StoreValues ==
  { Tokens("at_new", "rt_new", StartTime + TokenExpiresIn, ra) :
      ra \in {NoTimestamp, StartTime - DAY, StartTime} }

InitStore ==
  /\ impl = "ts"
  /\ now = StartTime
  /\ HYTALE_SERVER_SESSION_TOKEN = ""
  /\ AUTO_AUTH_ON_START = FALSE
  /\ DRY_RUN = FALSE
  /\ LOG_RETENTION_DAYS = 7
  /\ tokenFile \in StoreTokenFiles
  /\ mainPc = "setup"
  /\ acqPc = "idle"
  /\ oauthTokens = NoTokens
  /\ sessionTokens = NoSession
  /\ acqVia = "stored"
  /\ pollDeadline = 0 /\ pollInterval = 0 /\ pollWake = 0
  /\ javaProcess = "null"
  /\ childExitCode = NoExit
  /\ isShuttingDown = FALSE
  /\ hPc = "idle"
  /\ graceDeadline = 0
  /\ termSentAt = 0 /\ killSentAt = 0
  /\ refreshLoopRunning = FALSE /\ rPc = "off" /\ rWake = 0
  /\ rStored = NoTokens /\ checks = 0
  /\ logCleanupRunning = FALSE /\ cPc = "off" /\ cWake = 0 /\ cleanups = 0
  /\ supExit = NoExit
  /\ children = 0
  /\ hist = InitHist
  /\ store = StoreIdle
  /\ loops = LoopsIdle
  /\ dl = DlIdle
  /\ InitShIdle

storeRest == << cfgVars, mainPc, acqVars, pollVars, childVars, handlerVars,
               refreshVars, cleanupVars, supExit, shOwnVars, loops, dl, hist >>

\* saveOAuthTokens, first half: writeFileSync opens the token file with
\* truncation, the file has zero bytes until the data is written
StoreSaveOpen ==
  /\ store.pc = "idle"
  /\ \E t \in StoreValues :
       store' = [store EXCEPT !.pc = "writing", !.op = "save", !.arg = t,
                              !.before = tokenFile, !.startedAt = now]
  /\ tokenFile' = EmptyFile
  /\ UNCHANGED << now, storeRest >>

\* saveOAuthTokens, second half: the JSON text is written
StoreSaveWrite ==
  /\ store.pc = "writing"
  /\ tokenFile' = saveOAuthTokens(store.arg, now)
  /\ store' = [store EXCEPT !.pc = "saved", !.savedAt = now]
  /\ UNCHANGED << now, storeRest >>

\* the writing process is killed between the open and the write
StoreCrash ==
  /\ store.pc = "writing"
  /\ store' = [store EXCEPT !.pc = "crashed"]
  /\ UNCHANGED << now, tokenFile, storeRest >>

\* refreshOAuthTokens up to the fetch: loads the stored tokens, throws
\* without a refresh token, else posts it to the token endpoint
StoreRefreshStart ==
  /\ store.pc = "idle"
  /\ LET stored == loadOAuthTokens(tokenFile)
     IN store' = [store EXCEPT
                    !.pc = IF stored = NoTokens THEN "failed" ELSE "refreshing",
                    !.op = "refresh", !.arg = stored, !.before = tokenFile,
                    !.startedAt = now]
  /\ UNCHANGED << now, tokenFile, storeRest >>

\* refreshOAuthTokens after the fetch: throws on an error answer, else
\* builds the new tokens and calls saveOAuthTokens
StoreRefreshResponse ==
  /\ store.pc = "refreshing"
  /\ \E resp \in RefreshResponses :
       LET r == refreshOAuthTokens(store.arg, resp, now)
       IN IF r.ok
          THEN /\ store' = [store EXCEPT !.pc = "writing", !.resp = resp,
                                         !.arg = r.tokens]
               /\ tokenFile' = EmptyFile
          ELSE /\ store' = [store EXCEPT !.pc = "failed", !.resp = resp]
               /\ UNCHANGED tokenFile
  /\ UNCHANGED << now, storeRest >>

\* loadOAuthTokens in the second process, once, at any moment
StoreLoad ==
  /\ store.rpc = "idle"
  /\ store' = [store EXCEPT !.rpc = "loaded", !.seen = tokenFile,
                            !.seenAt = store.pc,
                            !.ret = loadOAuthTokens(tokenFile)]
  /\ UNCHANGED << now, tokenFile, storeRest >>

\* checkAndRefreshOAuth up to its decision: the stored tokens are loaded and
\* isRefreshTokenExpiringSoon is asked, once
StoreAgingCheck ==
  /\ store.agingAt = NoTimestamp
  /\ loadOAuthTokens(tokenFile) # NoTokens
  /\ LET tokens == loadOAuthTokens(tokenFile)
     IN store' = [store EXCEPT
                    !.aging = isRefreshTokenExpiringSoon(tokens, now),
                    !.agingOf = tokens, !.agingAt = now]
  /\ UNCHANGED << now, tokenFile, storeRest >>

StoreTick ==
  /\ now < StartTime + MaxStoreTicks
  /\ now' = now + 1
  /\ UNCHANGED << tokenFile, store, storeRest >>

NextStore ==
  \/ StoreSaveOpen
  \/ StoreSaveWrite
  \/ StoreCrash
  \/ StoreRefreshStart
  \/ StoreRefreshResponse
  \/ StoreLoad
  \/ StoreAgingCheck
  \/ StoreTick

SpecStore == InitStore /\ [][NextStore]_vars

\* ---------------------------------------------------------------------------
\* One polling run of the device authorization on its own (pollForToken,
\* poll_for_token), with a challenge that lasts for several polls, followed
\* by the session exchange. The TypeScript run is the one of the initial
\* acquisition, the bash run the one of the monitor's authorization subshell
\* beside the running server.
\* ---------------------------------------------------------------------------
PollExpiresIn == 16

\* the state just after the device endpoint has answered with the challenge
InitPoll ==
  /\ impl \in {"ts", "sh"}
  /\ now = StartTime
  /\ HYTALE_SERVER_SESSION_TOKEN = ""
  /\ AUTO_AUTH_ON_START = TRUE
  /\ DRY_RUN = FALSE
  /\ LOG_RETENTION_DAYS = 7
  /\ tokenFile \in {NoFile, CorruptFile}
  /\ oauthTokens = NoTokens
  /\ sessionTokens = NoSession
  /\ childExitCode = NoExit
  /\ isShuttingDown = FALSE
  /\ hPc = "idle"
  /\ graceDeadline = 0
  /\ termSentAt = 0 /\ killSentAt = 0
  /\ refreshLoopRunning = FALSE /\ rPc = "off" /\ rWake = 0
  /\ rStored = NoTokens
  /\ logCleanupRunning = FALSE /\ cPc = "off" /\ cWake = 0 /\ cleanups = 0
  /\ supExit = NoExit
  /\ hist = [InitHist EXCEPT !.challenges = 1]
  /\ store = StoreIdle
  /\ loops = LoopsIdle
  /\ dl = DlIdle
  /\ sessionFile = NoTimestamp
  /\ TOKENS_LOADED = FALSE
  /\ clPc = "idle" /\ clWake = 0 /\ count = 0
  /\ aWake = 0
  /\ IF impl = "ts"
     THEN /\ mainPc = "acquire" /\ acqPc = "pollSleep" /\ acqVia = "device"
          /\ pollDeadline = now + PollExpiresIn
          /\ pollInterval = DeviceInterval
          /\ pollWake = now + DeviceInterval
          /\ javaProcess = "null" /\ children = 0 /\ checks = 0
          /\ shPc = "off" /\ tm = [c \in TmCallers |-> TmIdle]
          /\ mPc = "off" /\ server_booted = FALSE /\ auth_triggered = FALSE
          /\ aPc = "off" /\ lPc = "off" /\ lWake = 0
          /\ logBooted = FALSE /\ logAuthRequired = FALSE
     ELSE /\ mainPc = "off" /\ acqPc = "idle" /\ acqVia = "stored"
          /\ pollDeadline = 0 /\ pollInterval = 0 /\ pollWake = 0
          /\ javaProcess = "running" /\ children = 1
          /\ shPc = "wait"
          /\ tm = [c \in TmCallers |->
                     IF c = "auth"
                     THEN [TmWaiting("auth", "pollSleep", "", "") EXCEPT
                             !.deadline = now + PollExpiresIn,
                             !.interval = DeviceInterval,
                             !.wake = now + DeviceInterval]
                     ELSE TmIdle]
          /\ mPc = "run" /\ server_booted = TRUE /\ auth_triggered = TRUE
          /\ aPc = "auth"
          \* the refresh loop has made its checks
          /\ lPc = "sleep" /\ lWake = now + TOKEN_CHECK_INTERVAL
          /\ checks = MaxChecks
          /\ logBooted = TRUE /\ logAuthRequired = TRUE

NextPoll ==
  \/ TsPollWake
  \/ TsPollResponse
  \/ TsProfilesResponse
  \/ TsSessionResponse
  \/ TmPollWake("auth")
  \/ TmPollResponse("auth")
  \/ TmProfilesResponse("auth")
  \/ TmSessionResponse("auth")
  \/ AdvanceTime

SpecPoll == InitPoll /\ [][NextPoll]_vars

\* ---------------------------------------------------------------------------
\* The start and stop functions of the two background loops called in any
\* order (startOAuthRefreshLoop / stopOAuthRefreshLoop of token-manager.ts,
\* startLogCleanupLoop / stopLogCleanupLoop of the entrypoint). Every
\* setTimeout callback that a start call schedules is one loop body; a body
\* ends when it reads its flag as false at the loop head.
\* ---------------------------------------------------------------------------
MaxLoopCalls == 3
MaxLoopChecks == 2

LoopTokenFiles ==
  { NoFile,
    Tokens("at_stored", "abc", StartTime + DAY, StartTime - DAY),
    Tokens("at_stored", "abc", StartTime - DAY, StartTime - 23 * DAY) }

InitLoops ==
  /\ impl = "ts"
  /\ now = StartTime
  /\ HYTALE_SERVER_SESSION_TOKEN = ""
  /\ AUTO_AUTH_ON_START = FALSE
  /\ DRY_RUN = FALSE
  /\ LOG_RETENTION_DAYS \in {0, 7}
  /\ tokenFile \in LoopTokenFiles
  /\ mainPc = "setup"
  /\ acqPc = "idle"
  /\ oauthTokens = NoTokens
  /\ sessionTokens = NoSession
  /\ acqVia = "stored"
  /\ pollDeadline = 0 /\ pollInterval = 0 /\ pollWake = 0
  /\ javaProcess = "null"
  /\ childExitCode = NoExit
  /\ isShuttingDown = FALSE
  /\ hPc = "idle"
  /\ graceDeadline = 0
  /\ termSentAt = 0 /\ killSentAt = 0
  /\ refreshLoopRunning = FALSE /\ rPc = "off" /\ rWake = 0
  /\ rStored = NoTokens /\ checks = 0
  /\ logCleanupRunning = FALSE /\ cPc = "off" /\ cWake = 0 /\ cleanups = 0
  /\ supExit = NoExit
  /\ children = 0
  /\ hist = InitHist
  /\ store = StoreIdle
  /\ loops = LoopsIdle
  /\ dl = DlIdle
  /\ InitShIdle

loopsRest == << cfgVars, mainPc, acqVars, pollVars, childVars, handlerVars,
                rPc, rWake, rStored, cPc, cWake, supExit, shOwnVars, store,
                dl >>

\* the sequence s without its i-th element
RemoveAt(s, i) == SubSeq(s, 1, i - 1) \o SubSeq(s, i + 1, Len(s))

\* startOAuthRefreshLoop(): return when the flag is set, else set it and
\* schedule a loop body after 60 s
LoopsStartOAuthRefreshLoop ==
  /\ loops.calls < MaxLoopCalls
  /\ IF refreshLoopRunning
     THEN /\ loops' = [loops EXCEPT !.calls = @ + 1]
          /\ UNCHANGED refreshLoopRunning
     ELSE /\ refreshLoopRunning' = TRUE
          /\ loops' = [loops EXCEPT
               !.calls = @ + 1,
               !.refresh = Append(@, [pc |-> "timer",
                                      wake |-> now + REFRESH_INITIAL_DELAY,
                                      stored |-> NoTokens])]
  /\ UNCHANGED << now, tokenFile, checks, logCleanupRunning, cleanups, hist,
                  loopsRest >>

\* stopOAuthRefreshLoop()
LoopsStopOAuthRefreshLoop ==
  /\ loops.calls < MaxLoopCalls
  /\ refreshLoopRunning' = stopOAuthRefreshLoop
  /\ loops' = [loops EXCEPT !.calls = @ + 1]
  /\ UNCHANGED << now, tokenFile, checks, logCleanupRunning, cleanups, hist,
                  loopsRest >>

\* startLogCleanupLoop(): return when retention is off, else set the flag and
\* schedule a loop body after 24 h
LoopsStartLogCleanupLoop ==
  /\ loops.calls < MaxLoopCalls
  /\ IF LOG_RETENTION_DAYS <= 0
     THEN /\ loops' = [loops EXCEPT !.calls = @ + 1]
          /\ UNCHANGED logCleanupRunning
     ELSE /\ logCleanupRunning' = TRUE
          /\ loops' = [loops EXCEPT
               !.calls = @ + 1,
               !.cleanup = Append(@, [pc |-> "timer",
                                      wake |-> now + LOG_CLEANUP_INTERVAL,
                                      stored |-> NoTokens])]
  /\ UNCHANGED << now, tokenFile, checks, refreshLoopRunning, cleanups, hist,
                  loopsRest >>

\* stopLogCleanupLoop()
LoopsStopLogCleanupLoop ==
  /\ loops.calls < MaxLoopCalls
  /\ logCleanupRunning' = stopLogCleanupLoop
  /\ loops' = [loops EXCEPT !.calls = @ + 1]
  /\ UNCHANGED << now, tokenFile, checks, refreshLoopRunning, cleanups, hist,
                  loopsRest >>

\* loop head of a refresh body, reached from its timer or after Bun.sleep:
\* the body ends when the flag is false, else it runs checkAndRefreshOAuth()
\* up to its first await
LoopsRefreshHead ==
  /\ checks < MaxLoopChecks
  /\ \E i \in DOMAIN loops.refresh :
       LET b == loops.refresh[i]
           tokens == loadOAuthTokens(tokenFile) IN
       /\ b.pc \in {"timer", "sleep"} /\ now >= b.wake
       /\ IF ~refreshLoopRunning
          THEN /\ loops' = [loops EXCEPT !.refresh = RemoveAt(@, i)]
               /\ UNCHANGED checks
          ELSE /\ checks' = checks + 1
               /\ IF tokens # NoTokens /\ isRefreshTokenExpiringSoon(tokens, now)
                  THEN loops' = [loops EXCEPT
                         !.refresh[i] = [pc |-> "inflight", wake |-> b.wake,
                                         stored |-> tokens]]
                  ELSE loops' = [loops EXCEPT
                         !.refresh[i] =
                           [pc |-> "sleep",
                            wake |-> now + OAUTH_REFRESH_CHECK_INTERVAL,
                            stored |-> b.stored]]
  /\ UNCHANGED << now, tokenFile, refreshLoopRunning, logCleanupRunning,
                  cleanups, hist, loopsRest >>

\* the refresh request of a body is answered: save on success, log on
\* failure, then Bun.sleep until the next check
LoopsRefreshResponse ==
  /\ \E i \in DOMAIN loops.refresh : \E resp \in RefreshResponses :
       LET b == loops.refresh[i]
           r == refreshOAuthTokens(b.stored, resp, now) IN
       /\ b.pc = "inflight"
       /\ IF r.ok
          THEN /\ tokenFile' = saveOAuthTokens(r.tokens, now)
               /\ hist' = [hist EXCEPT !.lastRefreshAt = now]
          ELSE /\ tokenFile' = tokenFile
               /\ hist' = [hist EXCEPT !.refreshFailed = TRUE]
       /\ loops' = [loops EXCEPT
            !.refresh[i] = [pc |-> "sleep",
                            wake |-> now + OAUTH_REFRESH_CHECK_INTERVAL,
                            stored |-> b.stored]]
  /\ UNCHANGED << now, checks, refreshLoopRunning, logCleanupRunning, cleanups,
                  loopsRest >>

\* the timer of a cleanup body fires: `while (logCleanupRunning)` is entered
\* or the callback returns
LoopsCleanupTimer ==
  /\ \E i \in DOMAIN loops.cleanup :
       LET b == loops.cleanup[i] IN
       /\ b.pc = "timer" /\ now >= b.wake
       /\ IF logCleanupRunning
          THEN loops' = [loops EXCEPT
                 !.cleanup[i] = [pc |-> "sleep",
                                 wake |-> now + LOG_CLEANUP_INTERVAL,
                                 stored |-> b.stored]]
          ELSE loops' = [loops EXCEPT !.cleanup = RemoveAt(@, i)]
  /\ UNCHANGED << now, tokenFile, checks, refreshLoopRunning,
                  logCleanupRunning, cleanups, hist, loopsRest >>

\* Bun.sleep of a cleanup body is over: break when stopped, else clean up and
\* sleep again
LoopsCleanupWake ==
  /\ cleanups < MaxLoopChecks
  /\ \E i \in DOMAIN loops.cleanup :
       LET b == loops.cleanup[i] IN
       /\ b.pc = "sleep" /\ now >= b.wake
       /\ IF logCleanupRunning
          THEN /\ cleanups' = cleanups + 1
               /\ loops' = [loops EXCEPT
                    !.cleanup[i] = [pc |-> "sleep",
                                    wake |-> now + LOG_CLEANUP_INTERVAL,
                                    stored |-> b.stored]]
          ELSE /\ loops' = [loops EXCEPT !.cleanup = RemoveAt(@, i)]
               /\ UNCHANGED cleanups
  /\ UNCHANGED << now, tokenFile, checks, refreshLoopRunning,
                  logCleanupRunning, hist, loopsRest >>

\* ends of the timers and sleeps of the loop bodies
LoopWakes ==
  { loops.refresh[i].wake : i \in { j \in DOMAIN loops.refresh :
                                      loops.refresh[j].pc # "inflight" } }
    \cup { loops.cleanup[i].wake : i \in DOMAIN loops.cleanup }

\* nothing is due: the clock moves to the next end of a timer or sleep
LoopsAdvanceTime ==
  /\ LoopWakes # {}
  /\ \A w \in LoopWakes : w > now
  /\ now' = CHOOSE w \in LoopWakes : \A v \in LoopWakes : w <= v
  /\ UNCHANGED << tokenFile, checks, refreshLoopRunning, logCleanupRunning,
                  cleanups, loops, hist, loopsRest >>

NextLoops ==
  \/ LoopsStartOAuthRefreshLoop
  \/ LoopsStopOAuthRefreshLoop
  \/ LoopsStartLogCleanupLoop
  \/ LoopsStopLogCleanupLoop
  \/ LoopsRefreshHead
  \/ LoopsRefreshResponse
  \/ LoopsCleanupTimer
  \/ LoopsCleanupWake
  \/ LoopsAdvanceTime

SpecLoops == InitLoops /\ [][NextLoops]_vars

\* ---------------------------------------------------------------------------
\* The retry loop of download_server_files (download.sh) on its own: every
\* run of the downloader CLI ends with one of the statuses of
\* run_cli_download.
\* ---------------------------------------------------------------------------
\* DOWNLOAD_MAX_RETRIES defaults to 5, DOWNLOAD_INITIAL_BACKOFF to 2
MAX_RETRIES == 5
INITIAL_BACKOFF == 2
\* jitter=$((RANDOM % 5))
JitterRange == 5

\* run_cli_download: 0 on success; 10 when the output names the OAuth host or
\* asks to authenticate (the URL, when one is found, is written to
\* AUTH_LINK.url) and CLI_LAST_ERROR stays empty; 1 otherwise, with
\* CLI_LAST_ERROR taken from the output
run_cli_download ==
  { [rc |-> 0, err |-> "", link |-> FALSE],
    [rc |-> 10, err |-> "", link |-> TRUE],
    [rc |-> 10, err |-> "", link |-> FALSE],
    [rc |-> 1, err |-> "context deadline exceeded", link |-> FALSE] }

\* $? after `if cmd; then ...; fi` when cmd failed: an if command without an
\* else part whose condition is false has exit status 0
StatusAfterIf(rc) == IF rc = 0 THEN rc ELSE 0

\* $((INITIAL_BACKOFF * (2 ** (attempt - 1)))) + jitter
calculate_backoff(attempt, jitter) ==
  INITIAL_BACKOFF * (2 ^ (attempt - 1)) + jitter

InitDownload ==
  /\ impl = "sh"
  /\ now = StartTime
  /\ HYTALE_SERVER_SESSION_TOKEN = ""
  /\ AUTO_AUTH_ON_START = FALSE
  /\ DRY_RUN = FALSE
  /\ LOG_RETENTION_DAYS = 7
  /\ tokenFile = NoFile
  /\ mainPc = "setup"
  /\ acqPc = "idle"
  /\ oauthTokens = NoTokens
  /\ sessionTokens = NoSession
  /\ acqVia = "stored"
  /\ pollDeadline = 0 /\ pollInterval = 0 /\ pollWake = 0
  /\ javaProcess = "null"
  /\ childExitCode = NoExit
  /\ isShuttingDown = FALSE
  /\ hPc = "idle"
  /\ graceDeadline = 0
  /\ termSentAt = 0 /\ killSentAt = 0
  /\ refreshLoopRunning = FALSE /\ rPc = "off" /\ rWake = 0
  /\ rStored = NoTokens /\ checks = 0
  /\ logCleanupRunning = FALSE /\ cPc = "off" /\ cWake = 0 /\ cleanups = 0
  /\ supExit = NoExit
  /\ children = 0
  /\ hist = InitHist
  /\ store = StoreIdle
  /\ loops = LoopsIdle
  /\ \E link \in BOOLEAN :
       dl = [DlIdle EXCEPT !.pc = "loop", !.attempt = 1, !.authLink = link]
  /\ InitShIdle

dlRest == << cfgVars, tokenFile, mainPc, acqVars, pollVars, childVars,
             handlerVars, refreshVars, cleanupVars, supExit, shOwnVars, store,
             loops, hist >>

\* one pass of `while [[ $attempt -le $MAX_RETRIES ]]` up to its break or its
\* sleep: run the CLI, take `result` from $?, decide
DlAttempt ==
  /\ dl.pc = "loop" /\ dl.attempt <= MAX_RETRIES
  /\ \E out \in run_cli_download : \E jitter \in 0 .. JitterRange - 1 :
       LET ran == [dl EXCEPT !.runs = @ + 1,
                             !.sawAuth = @ \/ out.rc = 10,
                             !.authLink = @ \/ out.link]
           result == StatusAfterIf(out.rc) IN
       IF out.rc = 0
       THEN dl' = [ran EXCEPT !.success = TRUE, !.pc = "after"]
       ELSE IF result = 10
       THEN dl' = [ran EXCEPT !.result = result, !.auth_needed = TRUE,
                              !.pc = "after"]
       ELSE IF dl.attempt >= MAX_RETRIES
       THEN dl' = [ran EXCEPT !.result = result, !.last_error = out.err,
                              !.pc = "after"]
       ELSE dl' = [ran EXCEPT
                     !.result = result, !.last_error = out.err, !.pc = "sleep",
                     !.wake = now + calculate_backoff(dl.attempt, jitter)]
  /\ UNCHANGED << now, dlRest >>

\* sleep "$backoff" is over; ((attempt++))
DlBackoffOver ==
  /\ dl.pc = "sleep"
  /\ now' = dl.wake
  /\ dl' = [dl EXCEPT !.attempt = @ + 1, !.pc = "loop"]
  /\ UNCHANGED dlRest

\* after the loop: die with the authentication message, die with the
\* failed-after-MAX_RETRIES message, or clear AUTH_LINK.url and go on to
\* extract
DlAfterLoop ==
  /\ dl.pc = "after"
  /\ IF dl.auth_needed
     THEN dl' = [dl EXCEPT !.pc = "died", !.message = "Authentication required"]
     ELSE IF ~dl.success
     THEN dl' = [dl EXCEPT !.pc = "died",
                           !.message = "Failed to download after MAX_RETRIES"]
     ELSE dl' = [dl EXCEPT !.pc = "extract", !.authLink = FALSE]
  /\ UNCHANGED << now, dlRest >>

NextDownload ==
  \/ DlAttempt
  \/ DlBackoffOver
  \/ DlAfterLoop

SpecDownload == InitDownload /\ [][NextDownload]_vars

\* number of bodies of a loop that are inside its while loop
LoopBodiesIn(bodies) ==
  Cardinality({ i \in DOMAIN bodies : bodies[i].pc # "timer" })

\* ---------------------------------------------------------------------------
\* Properties
\* ---------------------------------------------------------------------------
\* C1: on initial start the server process exists only once the acquisition of
\* session tokens has returned (with tokens or without); it is never spawned
\* while the token load, refresh, session exchange or device polling of that
\* acquisition is still under way. Checked for both entrypoints.
C1_SpawnAfterAcquisition ==
  javaProcess # "null" =>
    IF impl = "ts"
    THEN acqPc = "done"
    ELSE /\ shPc \notin {"download", "acquire", "validating", "acquiring", "authing"}
         /\ tm["main"].pc = "idle"

\* C1 happens: the server runs on a session obtained by device polling
C1_Witness ==
  /\ impl = "ts" /\ javaProcess = "running"
  /\ sessionTokens.kind = "session"
  /\ sessionTokens.source = "freshDeviceAuth"

\* C2: after a termination signal to a running server that ignores SIGTERM the
\* supervisor sends SIGKILL, and not before GRACE_PERIOD seconds have passed
\* since SIGTERM: it never leaves a signalled, still running server without
\* having sent SIGKILL, and a SIGKILL it sent came no earlier than the grace
\* period.
C2_ForcefulKillAfterGrace ==
  /\ (killSentAt # 0 => killSentAt - termSentAt >= GRACE_PERIOD)
  /\ (termSentAt # 0 /\ supExit # NoExit /\ javaProcess = "running")
       => killSentAt # 0

C4_ExitCodeMirrorsChild ==
  (/\ supExit # NoExit /\ javaProcess = "exited"
   /\ termSentAt = 0 /\ ~isShuttingDown /\ clPc = "idle"
   /\ hist.restartRequested = {})
    => supExit = childExitCode

C7_FailedRefreshRequestsRestart ==
  hist.refreshFailed => hist.restartRequested # {}

\* C8: under default settings, with the refresh endpoint always succeeding,
\* less than REFRESH_TOKEN_LIFETIME_DAYS days have passed since the refresh
\* token was last issued, at every moment of the run.
C8_RefreshTokenKeptAlive ==
  hist.lastRefreshAt # NoTimestamp =>
    now - hist.lastRefreshAt < REFRESH_TOKEN_LIFETIME_DAYS * DAY

\* C9: when the refresh endpoint answers invalid_grant during the acquisition
\* the token file is deleted, and with interactive authorization enabled a
\* device challenge is started.
C9_InvalidGrantDeletesTokenFile ==
  [][(~hist.invalidGrant /\ hist'.invalidGrant) =>
       /\ tokenFile' = NoFile
       /\ (AUTO_AUTH_ON_START => hist'.challenges = 1)]_vars

\* C10: the OAuth token file is deleted only on an authorization rejection:
\* by a refresh answered with HTTP 401/403 or invalid_grant, or after the
\* profile request of the validation was answered with 401/403; never on a
\* network error, an HTTP 5xx or a profile/session service error.
C10_DeletedOnlyOnRejection ==
  [][(tokenFile # NoFile /\ tokenFile' = NoFile) =>
       \/ \E c \in TmCallers :
            /\ tm[c].pc = "refresh"
            /\ tm'[c].why \in {"http_401", "invalid_grant"}
       \/ /\ shPc = "validating"
          /\ tm["main"].why \in {"profiles_rejected", "http_401", "invalid_grant"}]_vars

\* C11 (TypeScript entrypoint): with the session token given in the
\* environment the token manager has no request to any endpoint outstanding,
\* neither from the acquisition nor from the background refresh loop, and
\* the token file is not written.
C11_EnvOverrideTouchesNothing ==
  (impl = "ts" /\ HYTALE_SERVER_SESSION_TOKEN # "") =>
    /\ acqPc \in {"idle", "start", "done"}
    /\ rPc # "inflight"
    /\ ~(tokenFile.kind = "tokens" /\ tokenFile.accessToken = "at_refreshed")

\* C12: without a token file, without the environment token and with
\* interactive authorization disabled, the acquisition never has a request
\* outstanding, it returns no session, and the server is started without
\* session flags.
C12_NoTokensNoAuthStartsBare ==
  (/\ tokenFile = NoFile /\ sessionFile = NoTimestamp
   /\ HYTALE_SERVER_SESSION_TOKEN = "" /\ ~AUTO_AUTH_ON_START) =>
    /\ acqPc \in {"idle", "start", "done"}
    /\ tm["main"].pc \in {"idle", "done"}
    /\ (acqPc = "done" => sessionTokens = NoSession)
    /\ (tm["main"].pc = "done" => tm["main"].rc # 0)
    /\ ~TOKENS_LOADED
    /\ (javaProcess # "null" => hist.sessionFlags = {})

\* C12 happens: the TypeScript server runs without session flags
C12_Witness ==
  /\ impl = "ts" /\ tokenFile = NoFile
  /\ HYTALE_SERVER_SESSION_TOKEN = "" /\ ~AUTO_AUTH_ON_START
  /\ acqPc = "done" /\ sessionTokens = NoSession
  /\ javaProcess = "running" /\ hist.sessionFlags = {}

\* C13 (TypeScript entrypoint): no failure inside the acquisition ends the
\* supervisor (only a termination signal does, with status 0); once the
\* acquisition has returned, with or without a session, main can go on to
\* start the server; without a session the server gets no session flags.
C13_AcquisitionNeverAbortsStartup ==
  /\ (impl = "ts" /\ mainPc = "acquire" /\ supExit # NoExit)
       => (isShuttingDown /\ supExit = 0)
  /\ (TsAlive /\ mainPc = "acquire" /\ acqPc = "done") => ENABLED TsSpawn
  /\ (impl = "ts" /\ javaProcess # "null" /\ sessionTokens = NoSession
      /\ HYTALE_SERVER_SESSION_TOKEN = "")
       => hist.sessionFlags = {}

\* C13 happens: the device authorization failed and the server runs
\* unauthenticated
C13_Witness ==
  /\ impl = "ts" /\ javaProcess = "running"
  /\ sessionTokens = NoSession /\ hist.challenges = 1
  /\ hist.sessionFlags = {}

C15_SaveLoadRoundTrip ==
  (store.op = "save" /\ store.rpc = "loaded" /\ store.seenAt = "saved")
    => store.ret = store.arg

\* C15 amended: a load after a completed save(t) returns the accessToken,
\* refreshToken and expiresAt of t, and the time of the save as refreshedAt.
C15_SaveLoadStampsRefreshedAt ==
  (store.op = "save" /\ store.rpc = "loaded" /\ store.seenAt = "saved") =>
    /\ store.ret.kind = "tokens"
    /\ store.ret.accessToken = store.arg.accessToken
    /\ store.ret.refreshToken = store.arg.refreshToken
    /\ store.ret.expiresAt = store.arg.expiresAt
    /\ store.ret.refreshedAt = store.savedAt

\* C15 happens: a value saved with an older refreshedAt was loaded back
C15_Witness ==
  /\ store.op = "save" /\ store.rpc = "loaded" /\ store.seenAt = "saved"
  /\ store.arg.refreshedAt = StartTime - DAY
  /\ store.ret.refreshedAt = store.savedAt

\* C16: a reader of the token file during or after a save (also after the
\* writer was killed) finds the complete content of before the save or the
\* complete new content.
C16_SaveIsAtomic ==
  (store.rpc = "loaded" /\ store.seenAt \in {"writing", "crashed", "saved"}) =>
    \/ store.seen = store.before
    \/ /\ store.seen.kind = "tokens"
       /\ store.seen.accessToken = store.arg.accessToken
       /\ store.seen.refreshToken = store.arg.refreshToken
       /\ store.seen.expiresAt = store.arg.expiresAt

\* C17: loadOAuthTokens never raises, and returns null for a missing, an
\* empty and a malformed token file.
C17_LoadNeverRaises ==
  store.rpc = "loaded" =>
    /\ store.ret.kind \in {"null", "tokens"}
    /\ (store.seen.kind \in {"absent", "empty", "corrupt"}
          => store.ret = NoTokens)

\* C17 happens: a malformed file was loaded
C17_Witness ==
  /\ store.rpc = "loaded" /\ store.seen = CorruptFile /\ store.ret = NoTokens

\* C18: no log line written by the supervisor holds the complete value of a
\* session or identity token.
C18_NoSecretInLog == hist.logged = {}

\* C19 (TypeScript entrypoint): a request for credentials does not wait for
\* ever: with a fetch outstanding in the acquisition the acquisition still
\* returns (or the supervisor exits), and with a refresh request outstanding
\* in the background loop the iteration still ends.
C19_RequestsTimeOut ==
  /\ (impl = "ts" /\ AcqRequestPending)
       ~> (acqPc = "done" \/ supExit # NoExit)
  /\ (impl = "ts" /\ rPc = "inflight")
       ~> (rPc # "inflight" \/ supExit # NoExit)

\* C20: the token-manager.sh run of the background refresh loop and the one
\* of the authorization triggered by the server's request are never both
\* between their first access to the token files and their last write.
C20_NoOverlappingTokenOperations ==
  ~(/\ tm["loop"].pc \in {"refresh", "profiles", "session"}
    /\ tm["auth"].pc \in {"profiles", "session"})

\* C21 (TypeScript entrypoint): an acquisition that loads stored tokens
\* whose access token has expired sends the refresh request, and only from
\* its start, so once; the session exchange (profile request) is entered
\* from the start only with an unexpired access token, and after a refresh
\* only when the answer has arrived and the refreshed tokens are saved.
C21_RefreshOnceBeforeExchange ==
  [][impl = "ts" =>
      /\ (/\ acqPc = "start" /\ acqPc' # "start"
          /\ HYTALE_SERVER_SESSION_TOKEN = ""
          /\ tokenFile.kind = "tokens" /\ tokenFile.refreshToken # ""
          /\ tokenFile.expiresAt < now)
           => acqPc' = "refresh"
      /\ (acqPc' = "start" /\ acqPc # "start") => acqPc = "idle"
      /\ (acqPc' = "refresh" /\ acqPc # "refresh") => acqPc = "start"
      /\ (acqPc = "refresh" /\ acqPc' # "refresh")
           => acqPc' \in {"profiles", "deviceStart", "done"}
      /\ (acqPc = "refresh" /\ acqPc' = "profiles")
           => /\ oauthTokens'.accessToken = "at_refreshed"
              /\ tokenFile'.accessToken = "at_refreshed"
              /\ tokenFile'.refreshedAt = now
      /\ (acqPc = "start" /\ acqPc' = "profiles")
           => tokenFile.expiresAt > now
  ]_vars

\* C21 happens: the refresh of an expired stored token has been answered
\* and the exchange is under way
C21_Witness ==
  /\ impl = "ts" /\ acqPc = "profiles" /\ acqVia = "stored"
  /\ tokenFile.kind = "tokens" /\ tokenFile.accessToken = "at_refreshed"
  /\ tokenFile.refreshToken = "abc" /\ hist.lastRefreshAt = now

\* C22 (TypeScript entrypoint): when the session exchange made with stored
\* OAuth tokens fails, the token file is left exactly as it was and the
\* acquisition goes on to the device authorization step: it starts the
\* device authorization when AUTO_AUTH_ON_START is set and returns null
\* when it is not.
C22_ExchangeFailureKeepsTokens ==
  [][(/\ impl = "ts" /\ acqVia = "stored"
      /\ acqPc \in {"profiles", "session"}
      /\ acqPc' \notin {"profiles", "session"}
      /\ sessionTokens' = NoSession) =>
       /\ tokenFile' = tokenFile
       /\ tokenFile'.kind = "tokens"
       /\ acqPc' = IF AUTO_AUTH_ON_START THEN "deviceStart" ELSE "done"
  ]_vars

\* C22 happens: the stored access token was still valid, the exchange
\* failed, the token file is there and the device authorization has begun
C22_Witness ==
  /\ impl = "ts" /\ acqPc = "deviceStart" /\ acqVia = "device"
  /\ tokenFile.kind = "tokens" /\ tokenFile.accessToken = "at_stored"
  /\ tokenFile.expiresAt > now + ACCESS_EXPIRY_BUFFER

\* C23 as stated (bash entrypoint): the output watcher has the server
\* signalled for a restart only when it has seen the boot marker and the
\* authentication request of the server in the output.
C23_RestartOnlyAfterAuthRequired ==
  "auth" \in hist.restartRequested => (server_booted /\ logAuthRequired)

\* C23 amended (bash entrypoint): the watcher's authorization signals the
\* server only when it has returned success and the boot marker was seen,
\* together with either the server's authentication request or the startup
\* fallback (authorization on start enabled, no tokens loaded before the
\* start); an authorization that failed leaves the server and the record of
\* signals as they were.
C23_RestartAfterBootAndAuthorization ==
  [][/\ ("auth" \in hist'.restartRequested /\ "auth" \notin hist.restartRequested)
         => /\ tm["auth"].pc = "done" /\ tm["auth"].rc = 0
            /\ server_booted
            /\ (logAuthRequired \/ (AUTO_AUTH_ON_START /\ ~TOKENS_LOADED))
     /\ (/\ aPc = "auth" /\ aPc' # "auth"
         /\ tm["auth"].pc = "done" /\ tm["auth"].rc # 0)
         => /\ aPc' = "off"
            /\ javaProcess' = javaProcess /\ children' = children
            /\ hist'.restartRequested = hist.restartRequested
            /\ hist'.killSent = hist.killSent
  ]_vars

\* C23 happens: the authorization started on the server's request has
\* succeeded and the server is signalled
C23_Witness ==
  /\ impl = "sh" /\ "auth" \in hist.restartRequested
  /\ server_booted /\ logAuthRequired /\ aPc = "sleep"

\* C24: in a polling run no step that goes on polling, and no step that ends
\* it without success, writes the token file; the step that receives the
\* success answer writes it once, with the tokens of the answer, and hands
\* the same tokens on (TypeScript: the returned object and the file agree,
\* the file stamped with the time; bash: the file holds the tokens and the
\* run goes on to the session exchange).
C24_PollSavesOnceOnSuccess ==
  [][/\ impl = "ts" =>
          /\ (acqPc \in {"pollSleep", "pollFetch"} /\ acqPc' # "profiles")
               => tokenFile' = tokenFile
          /\ (acqPc = "pollFetch" /\ acqPc' = "profiles")
               => /\ oauthTokens'.accessToken = "at_device"
                  /\ oauthTokens'.refreshToken = "rt_device"
                  /\ tokenFile' = Tokens(oauthTokens'.accessToken,
                                         oauthTokens'.refreshToken,
                                         oauthTokens'.expiresAt, now)
          /\ (acqPc' \in {"pollSleep", "pollFetch"})
               => acqPc \in {"deviceStart", "pollSleep", "pollFetch"}
     /\ impl = "sh" =>
          /\ (/\ tm["auth"].pc \in {"pollSleep", "pollFetch"}
              /\ tm'["auth"].pc \in {"pollSleep", "pollFetch", "done"})
               => tokenFile' = tokenFile
          /\ (/\ tm["auth"].pc = "pollFetch"
              /\ tm'["auth"].pc \notin {"pollSleep", "pollFetch", "done"})
               => /\ tokenFile' = ShTokens("at_device", "rt_device",
                                           now + TokenExpiresIn)
                  /\ tm'["auth"].pc = "profiles"
  ]_vars

\* C24 happens: one authorization_pending, then success on the second poll
C24_Witness ==
  /\ impl = "ts" /\ acqPc = "profiles" /\ acqVia = "device"
  /\ now = StartTime + 2 * DeviceInterval /\ pollInterval = DeviceInterval
  /\ tokenFile.kind = "tokens" /\ tokenFile.accessToken = "at_device"
  /\ tokenFile.refreshedAt = now

\* C25: within a polling run the interval never decreases, a slow_down
\* answer makes it strictly larger, and the next poll is scheduled with the
\* interval as it is then.
C25_PollIntervalMonotonic ==
  [][/\ (impl = "ts" /\ acqPc = "pollFetch" /\ acqPc' = "pollSleep")
          => /\ pollInterval' >= pollInterval
             /\ (hist'.lastPoll = "slow_down" => pollInterval' > pollInterval)
             /\ pollWake' = now + pollInterval'
     /\ (impl = "ts" /\ acqPc \in {"pollSleep", "pollFetch"}
         /\ acqPc' \in {"pollSleep", "pollFetch"})
          => pollInterval' >= pollInterval
     /\ (impl = "sh" /\ tm["auth"].pc = "pollFetch"
         /\ tm'["auth"].pc = "pollSleep")
          => /\ tm'["auth"].interval >= tm["auth"].interval
             /\ (hist'.lastPoll = "slow_down"
                   => tm'["auth"].interval > tm["auth"].interval)
             /\ tm'["auth"].wake = now + tm'["auth"].interval
     /\ (impl = "sh" /\ tm["auth"].pc \in {"pollSleep", "pollFetch"}
         /\ tm'["auth"].pc \in {"pollSleep", "pollFetch"})
          => tm'["auth"].interval >= tm["auth"].interval
  ]_vars

\* C25 happens: a slow_down has been answered and the next poll is waited
\* for with the longer interval
C25_Witness ==
  /\ hist.lastPoll = "slow_down"
  /\ \/ (impl = "ts" /\ acqPc = "pollSleep"
         /\ pollInterval = DeviceInterval + SLOW_DOWN_STEP)
     \/ (impl = "sh" /\ tm["auth"].pc = "pollSleep"
         /\ tm["auth"].interval = DeviceInterval + SLOW_DOWN_STEP)

\* C26 (TypeScript entrypoint): no token request of pollForToken is
\* outstanding after the deadline of the challenge.
C26_NoPollAfterDeadline ==
  (impl = "ts" /\ acqPc = "pollFetch") => now <= pollDeadline

\* C27: isRefreshTokenExpiringSoon answers false for tokens without
\* refreshedAt, and otherwise true exactly when the time since refreshedAt is
\* at least 30 days minus the threshold, the boundary included.
C27_AgingAtBoundary ==
  store.agingAt # NoTimestamp =>
    store.aging =
      (/\ store.agingOf.refreshedAt # NoTimestamp
       /\ store.agingAt - store.agingOf.refreshedAt
            >= (REFRESH_TOKEN_LIFETIME_DAYS - OAUTH_REFRESH_THRESHOLD_DAYS) * DAY)

\* C27 happens: asked at the exact boundary instant, the answer is true
C27_Witness ==
  /\ store.agingAt # NoTimestamp /\ store.aging
  /\ store.agingAt - store.agingOf.refreshedAt
       = (REFRESH_TOKEN_LIFETIME_DAYS - OAUTH_REFRESH_THRESHOLD_DAYS) * DAY

\* C28 (bash entrypoint): when the refresh loop or the authorization
\* subshell sends SIGKILL to the server's process group for a restart, at
\* least GRACE_PERIOD seconds have passed since it sent SIGTERM (lWake and
\* aWake are the ends of the sleep begun at the SIGTERM) and the server is
\* still running.
C28_RestartKillAfterGrace ==
  [][/\ ("loop" \in hist'.killSent /\ "loop" \notin hist.killSent)
          => /\ now - (lWake - RESTART_GRACE) >= GRACE_PERIOD
             /\ javaProcess = "running"
     /\ ("auth" \in hist'.killSent /\ "auth" \notin hist.killSent)
          => /\ now - (aWake - AUTH_RESTART_GRACE) >= GRACE_PERIOD
             /\ javaProcess = "running"
  ]_vars


\* C29 (TypeScript loops): whatever the order of the start and stop calls,
\* at most one body of the OAuth refresh loop and at most one body of the
\* log-cleanup loop is inside its while loop at any time.
C29_AtMostOneLoopBody ==
  /\ LoopBodiesIn(loops.refresh) <= 1
  /\ LoopBodiesIn(loops.cleanup) <= 1

\* C30 (download.sh): once a run of the downloader CLI has reported that
\* authentication is required (run_cli_download returned 10), the CLI is not
\* run again, and when the script dies it dies with the authentication
\* message.
C30_AuthRequiredStopsRetries ==
  [][/\ dl.sawAuth => dl'.runs = dl.runs
     /\ (dl'.sawAuth /\ dl'.pc = "died")
          => dl'.message = "Authentication required"
  ]_vars
====
